---- MODULE Spec2Model ----
(***************************************************************************)
(* Model of the edo transform scheduler (crates/edo-core/src/scheduler):   *)
(* Inner::run builds the execution graph (Graph::add), pre-fetches         *)
(* (Graph::fetch) and executes it (Graph::run) with three kinds of         *)
(* concurrent tasks on a multi-threaded executor: the dispatcher loop (the *)
(* body of Graph::run), the controller task it spawns, and one task per    *)
(* dispatched node.                                                        *)
(* The execution of one node (Graph::transform with execute and its        *)
(* interactive retry loop) is modelled by its own specification, and so is  *)
(* a storage backend (LocalBackend, S3Backend) with its Catalog.            *)
(* Further specifications model the synchronisation of an artifact between *)
(* two backends (storage/mod.rs), the loading of a project with its lock   *)
(* file (context/builder.rs), the dependency resolver (source/resolver.rs),*)
(* the host functions of the plugin boundary (plugin), the text form of a  *)
(* media type (storage/artifact.rs) and of an Id (storage/id.rs), the      *)
(* SyncReader (util/sync.rs), the writers of the catalog of one S3 backend *)
(* (plugins/edo-core-plugin, storage/s3) and the directory of a local      *)
(* backend (storage/local.rs).                                             *)
(***************************************************************************)
EXTENDS Integers, Sequences, FiniteSets, TLC

\* Number of transforms declared in the project.
NumNodes == 3
\* Largest configured scheduler.workers value that is explored.
MaxBatch == 2

\* Largest number of transform.transform invocations of one execution.
MaxAttempts == 3

\* Number of distinct layer contents (blob digests).
NumBlobs == 2
\* Largest number of layers of an artifact.
MaxLayers == 2
\* Number of distinct digests an artifact id can carry.
NumIdDigests == 2
\* Number of callers of one backend.
NumClients == 2
\* Largest number of backend calls in one run of a backend.
MaxOps == 4

\* Largest number of declarations of a project.
MaxDecls == 2
\* Number of versions a lock can pin a dependency to.
NumPins == 2

\* Largest version a vendor offers of a package.
MaxVersion == 2
\* Largest number of requirements given to the Resolver.
MaxRequires == 2

\* Largest number of host calls a guest makes.
MaxCalls == 2
\* Largest number of characters of the name of a custom media type.
MaxNameLen == 3
\* Largest number of bytes of the source of a SyncReader.
MaxData == 3
\* Largest length of the buffer of a read call.
MaxBuf == 2
\* Largest number of read calls on one SyncReader.
MaxReads == 4
\* Number of writers of one S3 backend.
NumWriters == 2
\* Number of names of temporary files of a local backend.
NumTmp == 2
\* Largest number of calls on the directory of a local backend.
MaxLocalCalls == 5
\* `attempts >= 5` of S3Backend::wait_for_lock
LOCK_ATTEMPTS == 5

Nodes == 1..NumNodes
BatchSizes == 0..MaxBatch
\* The address given to Scheduler::run.
Target == CHOOSE n \in Nodes : \A m \in Nodes : n <= m

Pending == "Pending"
Queued == "Queued"
Running == "Running"
Failed == "Failed"
Success == "Success"
NodeStatus == {Pending, Queued, Running, Failed, Success}

VARIABLES
    depends,          \* Transform::depends() of every transform of the project
    batch_size,       \* Graph.batch_size (Inner.workers)
    local,            \* ids stored in the local backend
    build,            \* ids stored in the build cache
    pc,               \* position of Inner::run / Graph::run (the dispatcher)
    result,           \* what Inner::run returned ("none" while it runs)
    index,            \* Graph.index: the addresses that have a node
    edges,            \* Graph.graph edges <<dependency, dependent>>
    fetched,          \* transforms whose prepare() was started by Graph::fetch
    status,           \* Node.status of every node
    dequeue,          \* the ready queue (VecDeque)
    inflight,         \* the inflight counter
    channel,          \* completion messages sent and not yet received
    sender,           \* TRUE while the dispatcher holds its Sender
    handles,          \* node indices that have a JoinHandle in the table
    task,             \* per node: position of its spawned task
    task_result,      \* per node: what its spawned task returned
    awaited,          \* spawned node tasks whose JoinHandle was awaited
    prebuilt,         \* nodes found by find_build at dispatch
    current,          \* dispatcher local `current`
    send_amount,      \* iterations left of the dispatcher's for loop
    spawning,         \* node whose task is spawned, handle not yet inserted
    ctrl,             \* position of the controller task
    ctrl_children,    \* children of the received node still to be walked
    failure_occured,  \* controller local `failure_occured`
    parent_awaited    \* TRUE once Graph::run awaited the controller's handle

\* One execution of a node, Graph::transform
VARIABLES
    xpc,              \* position of Graph::transform / execute
    can_shell,        \* transform.can_shell()
    attempts,         \* number of transform.transform invocations so far
    attempt_result,   \* execute's `attempt_result`: status of the last attempt
    log_file,         \* whether that status carries a log file
    ans,              \* execute's `ans`: the option chosen at the last prompt
    exec_result,      \* what execute returns ("NoRun" until it is decided)
    artifact,         \* the attempt whose artifact `result` holds (0: none)
    uploads,          \* the artifacts storage.upload_build was invoked with
    env_calls,        \* the Environment methods invoked, in order
    xresult           \* what Graph::transform returned ("none" while it runs)

\* One storage backend and its callers
VARIABLES
    kind,             \* "local" (LocalBackend) or "s3" (S3Backend)
    catalog_file,     \* the Catalog stored in catalog.json
    blobs,            \* digests that have a blob file (object) in the backend
    cl,               \* per caller: the call it is in and that call's locals
    active,           \* the callers that use the backend
    ops               \* number of calls made so far

\* One synchronisation of an artifact's layers between two backends
VARIABLES
    sync_pc,          \* position of Inner::download / Inner::upload
    sync_op,          \* "download" or "upload"
    sync_artifact,    \* the artifact that is synchronised
    layer_tasks,      \* per layer: state of the task spawned for it
    sync_result,      \* what the operation returned ("none" while it runs)
    failures          \* the layer tasks whose errors the result carries

\* Loading a project: Project::load (walk, build) and edo.lock.json
VARIABLES
    declared,         \* the declarations of the project files, in walk order
    entry,            \* "load" (Context::init) or "update" (Update::run)
    error_on_lock,    \* the error_on_lock argument of Project::load
    load_pc,          \* position of Project::load
    walked,           \* number of declarations walk has loaded
    proj,             \* the Project: one map of Addr to Node per kind
    lock_file,        \* edo.lock.json on disk
    lock_at_start,    \* edo.lock.json on disk when Project::load was called
    lock,             \* build's `lock`: the new Lock
    registered,       \* vendors registered with the Resolver
    queried,          \* vendors asked for their options (Resolver::build_db)
    node_data,        \* data set on the nodes that need resolution
    resolves,         \* number of Resolver::resolve calls
    writes,           \* number of times edo.lock.json was opened for writing
    load_result       \* what Project::load returned ("none" while it runs)

\* One resolution: Resolver::build_db and Resolver::resolve
VARIABLES
    vendor_options,       \* what the vendor's get_options returns per name
    vendor_dependencies,  \* what its get_dependencies returns per candidate
    requires,             \* the Dependency list given to resolve
    name_to_vs,           \* Resolver.name_to_vs: the versions per known name
    resolve_pc,           \* position: "build_db", "resolve", "returned"
    found,                \* the map resolve returns (per requirement)
    resolve_result        \* "Ok" or the error resolve returned

\* A guest plugin calling operations of the host (plugin::Host)
VARIABLES
    host_pc,          \* "guest", or "host" while a host function runs
    host_op,          \* the host function the guest called last
    host_outcome,     \* what the host-side operation of that call returned
    guest_result,     \* what the call returned to the guest
    guest_error,      \* the GuestError the guest received with an error
    host_table,       \* the GuestErrors pushed to the resource table
    host_calls        \* number of calls made

\* A media type that is formatted and parsed back
VARIABLES
    media_pc,         \* "format", "parse", "done"
    media_type,       \* the MediaType x
    text,             \* x.to_string()
    parsed            \* MediaType::from_str of the text

\* A SyncReader over an asynchronous source (util/sync.rs)
VARIABLES
    rd_pc,            \* "idle" between calls, "poll" inside read_sync
    rd_source,        \* the wrapped source: its bytes, position, readiness
    readbuf,          \* the ReadBuf of the current call: buffer and filled
    rd_n,             \* the value the last call returned
    rd_before,        \* bytes the source had left when the last call began
    rd_out,           \* every byte the caller has taken, in order
    rd_reads,         \* number of calls
    rd_pended         \* some poll returned Poll::Pending

\* An artifact Id that is written and read back (storage/id.rs)
VARIABLES
    id_pc,            \* "format", "parse", "done"
    id_value,         \* the Id
    id_text,          \* id.to_string()
    id_parsed         \* Id::from_str of the text

\* Writers of one S3 backend (plugins/edo-core-plugin, storage/s3)
VARIABLES
    s3_catalog,       \* the object catalog.json
    s3_lock,          \* the object catalog.json.lock exists
    wr                \* per writer: its call, position, catalog, attempts

\* The directory of one local backend (storage/local.rs)
VARIABLES
    catalog_exists,   \* the file catalog.json exists
    catalog_json,     \* the Catalog written in catalog.json
    layer_dir,        \* the directory blobs/blake3 exists
    layer_blobs,      \* the blob files in blobs/blake3, by digest
    layer_tmps,       \* the temporary files in blobs/blake3
    open_writers,     \* the Writers start_layer gave out, by temporary file
    last_call,        \* the last call on the backend and its result
    local_calls       \* the number of calls made

scheduler == <<depends, batch_size, local, build, pc, result, index, edges,
               fetched, status, dequeue, inflight, channel, sender, handles,
               task, task_result, awaited, prebuilt, current, send_amount,
               spawning, ctrl, ctrl_children, failure_occured, parent_awaited>>

execution == <<xpc, can_shell, attempts, attempt_result, log_file, ans,
               exec_result, artifact, uploads, env_calls, xresult>>

backend == <<kind, catalog_file, blobs, cl, active, ops>>

sync == <<sync_pc, sync_op, sync_artifact, layer_tasks, sync_result, failures>>

loading == <<declared, entry, error_on_lock, load_pc, walked, proj, lock_file,
             lock_at_start, lock, registered, queried, node_data, resolves,
             writes, load_result>>

resolving == <<vendor_options, vendor_dependencies, requires, name_to_vs,
               resolve_pc, found, resolve_result>>

plugin_host == <<host_pc, host_op, host_outcome, guest_result, guest_error,
                 host_table, host_calls>>

media == <<media_pc, media_type, text, parsed>>

reader == <<rd_pc, rd_source, readbuf, rd_n, rd_before, rd_out, rd_reads,
            rd_pended>>

ident == <<id_pc, id_value, id_text, id_parsed>>

s3 == <<s3_catalog, s3_lock, wr>>

directory == <<catalog_exists, catalog_json, layer_dir, layer_blobs, layer_tmps,
               open_writers, last_call, local_calls>>

\* the utilities and protocols that are modelled on their own
further == <<reader, ident, s3, directory>>

beside_ident == <<reader, s3, directory>>
beside_reader == <<ident, s3, directory>>
beside_s3 == <<reader, ident, directory>>
beside_directory == <<reader, ident, s3>>

\* the parts of the program that have a specification of their own, after
\* the scheduler, the execution of a node and a storage backend
others == <<sync, loading, resolving, plugin_host, media, further>>

\* the parts an action of one of them leaves alone
beside_sync == <<scheduler, execution, loading, resolving, plugin_host, media,
                 further>>
beside_loading == <<scheduler, execution, backend, sync, resolving,
                    plugin_host, media, further>>
beside_resolving == <<scheduler, execution, backend, sync, loading,
                      plugin_host, media, further>>
beside_plugin_host == <<scheduler, execution, backend, sync, loading,
                        resolving, media, further>>
beside_media == <<scheduler, execution, backend, sync, loading, resolving,
                  plugin_host, further>>

\* everything but the utilities and protocols
program == <<scheduler, execution, backend, sync, loading, resolving,
             plugin_host, media>>

vars == <<scheduler, execution, backend, others>>

\* what the steps of the scheduler leave alone
outside == <<execution, backend, others>>

project == <<depends, batch_size>>
graph == <<index, edges>>
disp == <<current, send_amount, spawning>>
ctrlv == <<ctrl, ctrl_children, failure_occured>>
tasks == <<task, task_result>>

-----------------------------------------------------------------------------
(* Pure helpers *)

Min(a, b) == IF a <= b THEN a ELSE b

\* The elements of a set of nodes in ascending order.
RECURSIVE Ascending(_)
Ascending(S) ==
    IF S = {} THEN <<>>
    ELSE LET m == CHOOSE x \in S : \A y \in S : x <= y
         IN <<m>> \o Ascending(S \ {m})

\* All orders in which the elements of a set can be iterated.
Orders(S) ==
    {q \in [1..Cardinality(S) -> S] : \A i, j \in 1..Cardinality(S) : i # j => q[i] # q[j]}

\* Nodes reachable from `from` along `es` in one or more steps.
RECURSIVE ReachFrom(_, _, _)
ReachFrom(es, frontier, seen) ==
    LET next == {e[2] : e \in {x \in es : x[1] \in frontier}} \ seen
    IN IF next = {} THEN seen ELSE ReachFrom(es, next, seen \cup next)

has_path_connecting(es, a, b) == a = b \/ b \in ReachFrom(es, {a}, {})

\* add_edge without the cycle check (petgraph's Graph::add_edge)
add_edge_unchecked(g, a, b) == [g EXCEPT !.edges = @ \cup {<<a, b>>}]

\* daggy Dag::add_edge(a, b): refused with WouldCycle when b already reaches a.
add_edge(g, a, b) ==
    IF has_path_connecting(g.edges, b, a)
    THEN [g EXCEPT !.err = "Graph"]
    ELSE [g EXCEPT !.edges = @ \cup {<<a, b>>}]

\* Graph::add(addr): depth-first over Transform::depends().
RECURSIVE add(_, _, _), add_depends(_, _, _, _)
add(deps, g, addr) ==
    IF g.err # "none" \/ addr \in g.index THEN g
    ELSE add_depends(deps, [g EXCEPT !.index = @ \cup {addr}], addr, Ascending(deps[addr]))
add_depends(deps, g, addr, ds) ==
    IF ds = <<>> \/ g.err # "none" THEN g
    ELSE LET g1 == add(deps, g, Head(ds))
         IN IF g1.err # "none" THEN g1
            ELSE add_depends(deps, add_edge(g1, Head(ds), addr), addr, Tail(ds))

EmptyGraph == [index |-> {}, edges |-> {}, err |-> "none"]

\* petgraph directions: an edge runs from a dependency to its dependent.
parents(es, n) == {e[1] : e \in {x \in es : x[2] = n}}
children(es, n) == {e[2] : e \in {x \in es : x[1] = n}}

\* Graph::find_leafs
RECURSIVE find_leafs(_, _)
find_leafs(es, n) ==
    IF parents(es, n) = {} THEN {n}
    ELSE UNION {find_leafs(es, p) : p \in parents(es, n)}

\* only the local backend is looked at
find_build_local_only(id) == id \in local

\* Storage::find_build(id, sync): found locally, else in the build cache.
find_build(id) == id \in local \/ id \in build
\* the local backend after find_build(id, sync = true) for each id of ids
synced(ids) == local \cup (build \cap ids)

-----------------------------------------------------------------------------
(* Artifacts and the Catalog of a storage backend *)

Names == {"a", "b"}
Blobs == 1..NumBlobs
Clients == 1..NumClients
\* storage::Id: the name (with package, version and arch) and a digest
Ids == [name : Names, digest : 1..NumIdDigests]
\* Id::prefix: everything of the id without the digest
prefix(id) == id.name

\* Artifact::layers as the digests of the layers; a content occurs once.
LayerLists ==
    {l \in UNION {[1..n -> Blobs] : n \in 0..MaxLayers} :
        \A i, j \in 1..Len(l) : i # j => l[i] # l[j]}
Artifacts == [id : Ids, layers : LayerLists]
digests(layers) == {layers[i] : i \in 1..Len(layers)}

\* BTreeMap: get with a default, insert, remove
Lookup(f, k, default) == IF k \in DOMAIN f THEN f[k] ELSE default
Put(f, k, v) == [x \in DOMAIN f \cup {k} |-> IF x = k THEN v ELSE f[x]]
Drop(f, k) == [x \in DOMAIN f \ {k} |-> f[x]]

\* Catalog::default()
EmptyCatalog == [catalog |-> <<>>, manifests |-> <<>>, blob_counts |-> <<>>]

list_all(cat) == Lookup(cat.catalog, "*", {})
has(cat, id) == id \in DOMAIN cat.manifests
\* every stored id, whatever its prefix
matching_any(cat, id) == Lookup(cat.catalog, "*", {})
\* Catalog::matching
matching(cat, id) == Lookup(cat.catalog, prefix(id), {})
\* Catalog::count, by digest
count(cat, d) == Lookup(cat.blob_counts, d, 0)

\* Catalog::add, `*self.blob_counts.entry(digest).or_default() += 1` per layer
RECURSIVE count_up(_, _)
count_up(bc, layers) ==
    IF layers = <<>> THEN bc
    ELSE count_up(Put(bc, Head(layers), Lookup(bc, Head(layers), 0) + 1), Tail(layers))

\* Catalog::del, the decrement per layer with the removal of a count <= 0
RECURSIVE count_down(_, _)
count_down(bc, layers) ==
    IF layers = <<>> THEN bc
    ELSE LET d == Head(layers)
         IN IF d \in DOMAIN bc
            THEN count_down(IF bc[d] - 1 <= 0 THEN Drop(bc, d) ELSE Put(bc, d, bc[d] - 1),
                            Tail(layers))
            ELSE count_down(bc, Tail(layers))

\* Catalog::add
Catalog_add(cat, a) ==
    LET id == a.id
        c1 == Put(cat.catalog, "*", Lookup(cat.catalog, "*", {}) \cup {id})
        c2 == Put(c1, prefix(id), Lookup(c1, prefix(id), {}) \cup {id})
    IN [catalog |-> c2,
        manifests |-> Put(cat.manifests, id, a),
        blob_counts |-> count_up(cat.blob_counts, a.layers)]

\* Catalog::del
Catalog_del(cat, id) ==
    LET c1 == Put(cat.catalog, "*", Lookup(cat.catalog, "*", {}) \ {id})
        c2 == IF prefix(id) \in DOMAIN c1
              THEN IF c1[prefix(id)] \ {id} = {}
                   THEN Drop(c1, prefix(id))
                   ELSE Put(c1, prefix(id), c1[prefix(id)] \ {id})
              ELSE c1
    IN IF id \in DOMAIN cat.manifests
       THEN [catalog |-> c2,
             manifests |-> Drop(cat.manifests, id),
             blob_counts |-> count_down(cat.blob_counts, cat.manifests[id].layers)]
       ELSE [cat EXCEPT !.catalog = c2]

\* placeholders for the locals of a caller that is in no call
NoId == [name |-> "", digest |-> 0]
NoArtifact == [id |-> NoId, layers |-> <<>>]

\* A caller that is in no call; res is what its last call returned (and was
\* names that call, once it has made one).
Idle(res) ==
    [op |-> "idle", pc |-> "idle", id |-> NoId, to |-> NoId, pid |-> NoId,
     art |-> NoArtifact, cat |-> EmptyCatalog, outer |-> "none", todo |-> {},
     was |-> "none", res |-> res]

\* No backend is in use.
NoBackend ==
    /\ kind = "local"
    /\ catalog_file = EmptyCatalog
    /\ blobs = {}
    /\ cl = [c \in Clients |-> Idle("none")]
    /\ active = {}
    /\ ops = 0

LayerIndex == 1..MaxLayers

\* No artifact is being synchronised.
NoSync ==
    /\ sync_pc = "idle"
    /\ sync_op = "none"
    /\ sync_artifact = NoArtifact
    /\ layer_tasks = [i \in LayerIndex |-> "none"]
    /\ sync_result = "none"
    /\ failures = {}

\* Addresses: a declaration named n of the root namespace is at <<n>>, the
\* dependency w it wants is at <<n, w>> (Addr::join).
Addrs == {<<n>> : n \in Names}
Wanted == "w"
WantAddrs == {<<n, Wanted>> : n \in Names}

\* The blocks Project::load_file reads. A declaration is a block with its
\* name and whether it has a `wants` entry (vendors are not asked for one).
DeclKinds == {"vendor", "environment", "transform", "plugin"}
Decls == {d \in [kind : DeclKinds, name : Names, wants : BOOLEAN] :
            d.kind = "vendor" => ~d.wants}
RECURSIVE SeqsUpTo(_, _)
SeqsUpTo(S, n) ==
    IF n = 0 THEN {<<>>}
    ELSE LET shorter == SeqsUpTo(S, n - 1) IN
         shorter \cup {Append(q, x) : q \in {t \in shorter : Len(t) = n - 1},
                                      x \in S}
DeclLists == SeqsUpTo(Decls, MaxDecls)

\* Project with all its maps empty (Project::load)
EmptyProject ==
    [backends |-> <<>>, vendors |-> <<>>, plugins |-> <<>>,
     environments |-> <<>>, transforms |-> <<>>, need_resolution |-> <<>>]

\* the unresolved node of a `wants` entry
Unresolved == [name |-> Wanted, at |-> "*"]

\* Project::calculate_digest: the hash of the addresses and serialised nodes
\* of need_resolution, in the order of their addresses: two projects have
\* the same digest when these are the same.
calculate_digest(nr) == {<<a, nr[a]>> : a \in DOMAIN nr}

\* the versions a resolution can pin a dependency to
Pins == 1..NumPins

\* Lock {digest, content}; NoLock stands for the Lock of a file that has none.
NoLock == [digest |-> {}, content |-> <<>>]
\* edo.lock.json: absent, or created and still empty, or holding a part of a
\* serialised Lock, or holding a complete one.
File(state, l) == [state |-> state, lock |-> l]
Absent == File("absent", NoLock)

\* No project is being loaded.
NoLoading ==
    /\ declared = <<>>
    /\ entry = "none"
    /\ error_on_lock = FALSE
    /\ load_pc = "idle"
    /\ walked = 0
    /\ proj = EmptyProject
    /\ lock_file = Absent
    /\ lock_at_start = Absent
    /\ lock = NoLock
    /\ registered = {}
    /\ queried = {}
    /\ node_data = <<>>
    /\ resolves = 0
    /\ writes = 0
    /\ load_result = "none"

\* Packages and their versions
Pkgs == {"foo", "bar"}
Versions == 1..MaxVersion

\* No resolution is running.
NoResolving ==
    /\ vendor_options = [p \in Pkgs |-> {}]
    /\ vendor_dependencies = [p \in Pkgs |-> [v \in Versions |-> <<>>]]
    /\ requires = <<>>
    /\ name_to_vs = <<>>
    /\ resolve_pc = "idle"
    /\ found = <<>>
    /\ resolve_result = "none"

\* GuestError {plugin, message}; NoError where there is none
NoError == [plugin |-> "", message |-> ""]

\* the result of a host-side operation that has not run
NotRun == [status |-> "none", message |-> ""]

\* No guest is running.
NoPluginHost ==
    /\ host_pc = "idle"
    /\ host_op = "none"
    /\ host_outcome = NotRun
    /\ guest_result = "none"
    /\ guest_error = NoError
    /\ host_table = <<>>
    /\ host_calls = 0

\* MediaType; the name is empty unless the kind is Custom, and a Manifest
\* has no compression.
NoMediaType == [kind |-> "none", name |-> <<>>, compression |-> "None"]

\* No media type is converted.
NoMedia ==
    /\ media_pc = "idle"
    /\ media_type = NoMediaType
    /\ text = <<>>
    /\ parsed = NoMediaType

\* No SyncReader exists.
NoReader ==
    /\ rd_pc = "none"
    /\ rd_source = [data |-> <<>>, pos |-> 0, ready |-> TRUE]
    /\ readbuf = [buf |-> <<>>, filled |-> 0]
    /\ rd_n = 0
    /\ rd_before = 0
    /\ rd_out = <<>>
    /\ rd_reads = 0
    /\ rd_pended = FALSE

\* Option<T>: None, or Some(v)
None == [some |-> FALSE, val |-> <<>>]
Some(v) == [some |-> TRUE, val |-> v]

NoIdValue ==
    [package |-> None, name |-> <<>>, version |-> None, arch |-> None,
     digest |-> <<>>]

\* No Id is converted.
NoIdent ==
    /\ id_pc = "idle"
    /\ id_value = NoIdValue
    /\ id_text = <<>>
    /\ id_parsed = [kind |-> "none", id |-> NoIdValue]

Writers == 1..NumWriters

\* a writer that makes no call
NoWriter ==
    [pc |-> "none", op |-> "none", cat |-> EmptyCatalog, attempts |-> 0,
     put |-> "none", res |-> "none"]

\* No S3 backend is in use.
NoS3 ==
    /\ s3_catalog = EmptyCatalog
    /\ s3_lock = FALSE
    /\ wr = [w \in Writers |-> NoWriter]

Tmps == 1..NumTmp

\* no call was made
NoCall == [op |-> "none", res |-> "none"]

\* No directory of a local backend is in use.
NoDirectory ==
    /\ catalog_exists = FALSE
    /\ catalog_json = EmptyCatalog
    /\ layer_dir = FALSE
    /\ layer_blobs = {}
    /\ layer_tmps = {}
    /\ open_writers = {}
    /\ last_call = NoCall
    /\ local_calls = 0

\* No utility or protocol is in use.
NoFurther == NoReader /\ NoIdent /\ NoS3 /\ NoDirectory

\* Nothing but the scheduler, an execution or a backend is in use.
NoOthers ==
    NoSync /\ NoLoading /\ NoResolving /\ NoPluginHost /\ NoMedia /\ NoFurther

-----------------------------------------------------------------------------
(* Initial state: a project, a configuration and a storage content; the    *)
(* Graph is new and nothing has run.                                       *)

\* Transforms are numbered so that a dependency has a larger number than its
\* dependent; at most one declared dependency breaks that order (it points at
\* the transform itself or backwards), which is what makes a project cyclic.
BackwardDepends(d) == {e \in Nodes \X Nodes : e[2] \in d[e[1]] /\ e[2] <= e[1]}
Projects == {d \in [Nodes -> SUBSET Nodes] : Cardinality(BackwardDepends(d)) <= 1}

\* No node is being executed.
NoExecution ==
    /\ xpc = "idle"
    /\ can_shell = FALSE
    /\ attempts = 0
    /\ attempt_result = "none"
    /\ log_file = FALSE
    /\ ans = "none"
    /\ exec_result = "NoRun"
    /\ artifact = 0
    /\ uploads = <<>>
    /\ env_calls = <<>>
    /\ xresult = "none"

\* A new Graph, before Inner::run has done anything.
NewGraph ==
    /\ pc = "add"
    /\ result = "none"
    /\ index = {}
    /\ edges = {}
    /\ fetched = {}
    /\ status = [n \in Nodes |-> Pending]
    /\ dequeue = <<>>
    /\ inflight = 0
    /\ channel = <<>>
    /\ sender = FALSE
    /\ handles = {}
    /\ task = [n \in Nodes |-> "none"]
    /\ task_result = [n \in Nodes |-> "none"]
    /\ awaited = {}
    /\ prebuilt = {}
    /\ current = 0
    /\ send_amount = 0
    /\ spawning = {}
    /\ ctrl = "none"
    /\ ctrl_children = {}
    /\ failure_occured = FALSE
    /\ parent_awaited = FALSE

Init ==
    /\ depends \in Projects
    /\ batch_size \in BatchSizes
    /\ \E stored \in SUBSET Nodes :
          \/ local = stored /\ build = {}
          \/ local = {} /\ build = stored
    /\ NewGraph
    /\ NoExecution
    /\ NoBackend
    /\ NoOthers

-----------------------------------------------------------------------------
(* Inner::run: graph.add, graph.fetch *)

\* Inner::run, `graph.add(ctx, addr).await?`
GraphAdd ==
    /\ pc = "add"
    /\ LET g == add(depends, EmptyGraph, Target)
       IN /\ index' = g.index
          /\ edges' = g.edges
          /\ IF g.err # "none"
             THEN pc' = "returned" /\ result' = g.err
             ELSE pc' = "fetch" /\ result' = result
    /\ UNCHANGED <<outside, project, local, build, fetched, status, dequeue, inflight,
                   channel, sender, handles, tasks, awaited, prebuilt, disp,
                   ctrlv, parent_awaited>>

\* Graph::fetch: every node not found by find_build(id, true) is prepared;
\* a failing prepare task makes the whole run fail.
GraphFetch ==
    /\ pc = "fetch"
    /\ fetched' = {n \in index : ~find_build(n)}
    /\ local' = synced(index)
    /\ \E ok \in BOOLEAN :
          IF ok \/ fetched' = {}
          THEN pc' = "run" /\ result' = result
          ELSE pc' = "returned" /\ result' = "Child"
    /\ UNCHANGED <<outside, project, build, graph, status, dequeue, inflight, channel,
                   sender, handles, tasks, awaited, prebuilt, disp, ctrlv,
                   parent_awaited>>

-----------------------------------------------------------------------------
(* Graph::run, the dispatcher *)

set_status(n, st) == status' = [status EXCEPT ![n] = st]

\* Graph::run up to the spawn of the controller: the target's pre-built check,
\* find_leafs, the ready queue seeded in the HashSet's iteration order, every
\* leaf marked Queued, the channel created (which panics for a capacity of 0).
RunStart ==
    /\ pc = "run"
    /\ IF find_build(Target)
       THEN /\ pc' = "returned" /\ result' = "Ok"
            /\ UNCHANGED <<status, dequeue, sender, ctrl>>
       ELSE LET leafs == find_leafs(edges, Target)
            IN /\ \E q \in Orders(leafs) : dequeue' = q
               /\ status' = [n \in Nodes |-> IF n \in leafs THEN Queued ELSE status[n]]
               /\ IF batch_size = 0
                  THEN /\ pc' = "returned" /\ result' = "Panic"
                       /\ UNCHANGED <<sender, ctrl>>
                  ELSE /\ pc' = "loop_dequeue" /\ result' = result
                       /\ sender' = TRUE
                       /\ ctrl' = "recv"
    /\ UNCHANGED <<outside, project, local, build, graph, fetched, inflight, channel,
                   handles, tasks, awaited, prebuilt, disp, ctrl_children,
                   failure_occured, parent_awaited>>

\* `while !loop_deq.lock().await.is_empty() || ...`: the first operand
LoopCheckDequeue ==
    /\ pc = "loop_dequeue"
    /\ pc' = IF dequeue # <<>> THEN "read_current" ELSE "loop_inflight"
    /\ UNCHANGED <<outside, project, local, build, result, graph, fetched, status,
                   dequeue, inflight, channel, sender, handles, tasks, awaited,
                   prebuilt, disp, ctrlv, parent_awaited>>

\* `... || loop_inflight.lock().await.load(SeqCst) > 0`: the second operand,
\* read after the first one and after the queue's lock was released
LoopCheckInflight ==
    /\ pc = "loop_inflight"
    /\ pc' = IF inflight > 0 THEN "read_current" ELSE "drop_sender"
    /\ UNCHANGED <<outside, project, local, build, result, graph, fetched, status,
                   dequeue, inflight, channel, sender, handles, tasks, awaited,
                   prebuilt, disp, ctrlv, parent_awaited>>

\* `let current = loop_inflight.lock().await.load(SeqCst)`
LoopReadCurrent ==
    /\ pc = "read_current"
    /\ current' = inflight
    /\ pc' = "send_amount"
    /\ UNCHANGED <<outside, project, local, build, result, graph, fetched, status,
                   dequeue, inflight, channel, sender, handles, tasks, awaited,
                   prebuilt, send_amount, spawning, ctrlv, parent_awaited>>

\* the whole queue is sent, whatever is in flight
whole_queue == Len(dequeue)

\* `std::cmp::min(self.batch_size - current as u64, loop_deq.lock().await.len() as u64)`
open_slots == Min(batch_size - current, Len(dequeue))

\* `let send_amount = ...`
LoopSendAmount ==
    /\ pc = "send_amount"
    /\ send_amount' = open_slots
    /\ pc' = "for"
    /\ UNCHANGED <<outside, project, local, build, result, graph, fetched, status,
                   dequeue, inflight, channel, sender, handles, tasks, awaited,
                   prebuilt, current, spawning, ctrlv, parent_awaited>>

\* `for _ in 0..send_amount` has no iteration left, or pop_front gave None
ForDone ==
    /\ pc = "for"
    /\ send_amount = 0 \/ dequeue = <<>>
    /\ send_amount' = 0
    /\ pc' = "loop_dequeue"
    /\ UNCHANGED <<outside, project, local, build, result, graph, fetched, status,
                   dequeue, inflight, channel, sender, handles, tasks, awaited,
                   prebuilt, current, spawning, ctrlv, parent_awaited>>

\* One iteration whose find_build(id, false) finds the artifact: the index is
\* sent to the controller and the for loop is left with `break`.
DispatchPrebuilt ==
    /\ pc = "for" /\ send_amount > 0 /\ dequeue # <<>>
    /\ find_build(Head(dequeue))
    /\ Len(channel) < batch_size
    /\ dequeue' = Tail(dequeue)
    /\ inflight' = inflight + 1
    /\ channel' = Append(channel, Head(dequeue))
    /\ prebuilt' = prebuilt \cup {Head(dequeue)}
    /\ send_amount' = 0
    /\ pc' = "loop_dequeue"
    /\ UNCHANGED <<outside, project, local, build, result, graph, fetched, status,
                   sender, handles, tasks, awaited, current, spawning, ctrlv,
                   parent_awaited>>

\* One iteration that spawns the node's task; the JoinHandle is not yet in
\* the table.
DispatchSpawn ==
    /\ pc = "for" /\ send_amount > 0 /\ dequeue # <<>>
    /\ ~find_build(Head(dequeue))
    /\ dequeue' = Tail(dequeue)
    /\ inflight' = inflight + 1
    /\ task' = [task EXCEPT ![Head(dequeue)] = "spawned"]
    /\ spawning' = {Head(dequeue)}
    /\ pc' = "insert"
    /\ UNCHANGED <<outside, project, local, build, result, graph, fetched, status,
                   channel, sender, handles, task_result, awaited, prebuilt,
                   current, send_amount, ctrlv, parent_awaited>>

\* `handles.insert(index, <the JoinHandle tokio::spawn returned>)`
InsertHandle ==
    /\ pc = "insert"
    /\ handles' = handles \cup spawning
    /\ spawning' = {}
    /\ send_amount' = send_amount - 1
    /\ pc' = "for"
    /\ UNCHANGED <<outside, project, local, build, result, graph, fetched, status,
                   dequeue, inflight, channel, sender, tasks, awaited, prebuilt,
                   current, ctrlv, parent_awaited>>

\* One iteration in which get_unique_id or find_build fails after pop_front:
\* `?` returns from Graph::run, dropping its Sender and every JoinHandle it
\* still holds, the controller's included.
DispatchError ==
    /\ pc = "for" /\ send_amount > 0 /\ dequeue # <<>>
    /\ dequeue' = Tail(dequeue)
    /\ sender' = FALSE
    /\ send_amount' = 0
    /\ pc' = "returned"
    /\ result' = "Cache"
    /\ UNCHANGED <<outside, project, local, build, graph, fetched, status, inflight,
                   channel, handles, tasks, awaited, prebuilt, current,
                   spawning, ctrlv, parent_awaited>>

\* `drop(sender)` after the while loop
DropSender ==
    /\ pc = "drop_sender"
    /\ sender' = FALSE
    /\ pc' = "join_parent"
    /\ UNCHANGED <<outside, project, local, build, result, graph, fetched, status,
                   dequeue, inflight, channel, handles, tasks, awaited,
                   prebuilt, disp, ctrlv, parent_awaited>>

\* `parent.await.context(error::JoinSnafu)??; Ok(())`
JoinParent ==
    /\ pc = "join_parent"
    /\ ctrl = "done"
    /\ parent_awaited' = TRUE
    /\ pc' = "returned"
    /\ result' = "Ok"
    /\ UNCHANGED <<outside, project, local, build, graph, fetched, status, dequeue,
                   inflight, channel, sender, handles, tasks, awaited, prebuilt,
                   disp, ctrlv>>

-----------------------------------------------------------------------------
(* The task spawned for a dispatched node *)

\* `ctx.log().create(..).await?; node.set_running()`
TaskStart(n) ==
    /\ task[n] = "spawned"
    /\ task' = [task EXCEPT ![n] = "running"]
    /\ set_status(n, Running)
    /\ UNCHANGED <<outside, project, local, build, pc, result, graph, fetched, dequeue,
                   inflight, channel, sender, handles, task_result, awaited,
                   prebuilt, disp, ctrlv, parent_awaited>>

\* `ctx.log().create(..).await?` fails: the task returns the error without
\* set_running and without sending its index.
TaskLogFail(n) ==
    /\ task[n] = "spawned"
    /\ task' = [task EXCEPT ![n] = "done"]
    /\ task_result' = [task_result EXCEPT ![n] = "Err"]
    /\ UNCHANGED <<outside, project, local, build, pc, result, graph, fetched, status,
                   dequeue, inflight, channel, sender, handles, awaited,
                   prebuilt, disp, ctrlv, parent_awaited>>

\* Graph::transform returns r, the index is sent, the task returns r. A
\* successful transform has saved its artifact in the local backend.
TaskFinish(n, r) ==
    /\ task[n] = "running"
    /\ Len(channel) < batch_size
    /\ task' = [task EXCEPT ![n] = "done"]
    /\ task_result' = [task_result EXCEPT ![n] = r]
    /\ channel' = Append(channel, n)
    /\ local' = IF r = "Ok" THEN local \cup {n} ELSE local
    /\ UNCHANGED <<outside, project, build, pc, result, graph, fetched, status, dequeue,
                   inflight, sender, handles, awaited, prebuilt, disp, ctrlv,
                   parent_awaited>>

-----------------------------------------------------------------------------
(* The controller task *)

\* Every Sender is dropped: the dispatcher's and the clone each live task holds.
AllSendersDropped == ~sender /\ \A n \in Nodes : task[n] \in {"none", "done"}

\* a node without a join handle is taken for a failed one
completion_no_handle_fails(i) ==
    IF i \in handles /\ task_result[i] = "Ok" THEN Success ELSE Failed

\* `if let Some(handle) = parent_handle.remove(&index) { match handle.1.await ..
\* { Ok(_) => set_success, Err(e) => set_failed } } else { set_success }`
completion(i) ==
    IF i \in handles /\ task_result[i] = "Err" THEN Failed ELSE Success

\* One receive with the handling of the join handle: a node that has a handle
\* takes its task's result, a node without one is flagged Success.
CtrlRecv ==
    /\ ctrl = "recv"
    /\ channel # <<>>
    /\ LET i == Head(channel)
           failed == completion(i) = Failed
       IN /\ channel' = Tail(channel)
          /\ handles' = handles \ {i}
          /\ awaited' = IF i \in handles THEN awaited \cup {i} ELSE awaited
          /\ set_status(i, completion(i))
          /\ failure_occured' = (failure_occured \/ failed)
          /\ IF failure_occured'
             THEN ctrl' = "recv" /\ ctrl_children' = {}
             ELSE ctrl' = "walk" /\ ctrl_children' = children(edges, i)
    /\ UNCHANGED <<outside, project, local, build, pc, result, graph, fetched, dequeue,
                   inflight, sender, tasks, prebuilt, disp, parent_awaited>>

\* The readiness check of one child of the finished node
all_parents_done(c) == \A p \in parents(edges, c) : status[p] \notin {Queued, Pending}

\* the child is queued without looking at its own status
can_queue_any_status(c) == all_parents_done(c)

\* the child is queued unless its task is running
can_queue_unless_running(c) == all_parents_done(c) /\ status[c] # Running

\* `if skip { continue; } if node.is_pending() { .. }`
can_queue(c) == all_parents_done(c) /\ status[c] = Pending

\* One step of `while let Some(child) = children.walk_next(&graph)`
CtrlWalk ==
    /\ ctrl = "walk"
    /\ \E c \in ctrl_children :
          /\ ctrl_children' = ctrl_children \ {c}
          /\ IF can_queue(c)
             THEN set_status(c, Queued) /\ dequeue' = Append(dequeue, c)
             ELSE UNCHANGED <<status, dequeue>>
    /\ UNCHANGED <<outside, project, local, build, pc, result, graph, fetched, inflight,
                   channel, sender, handles, tasks, awaited, prebuilt, disp,
                   ctrl, failure_occured, parent_awaited>>

\* `parent_inflight.lock().await.fetch_sub(1, SeqCst)` after the walk
CtrlDecrement ==
    /\ ctrl = "walk"
    /\ ctrl_children = {}
    /\ inflight' = inflight - 1
    /\ ctrl' = "recv"
    /\ UNCHANGED <<outside, project, local, build, pc, result, graph, fetched, status,
                   dequeue, channel, sender, handles, tasks, awaited, prebuilt,
                   disp, ctrl_children, failure_occured, parent_awaited>>

\* `receiver.recv()` returns None: the controller returns Ok(())
CtrlExit ==
    /\ ctrl = "recv"
    /\ channel = <<>>
    /\ AllSendersDropped
    /\ ctrl' = "done"
    /\ UNCHANGED <<outside, project, local, build, pc, result, graph, fetched, status,
                   dequeue, inflight, channel, sender, handles, tasks, awaited,
                   prebuilt, disp, ctrl_children, failure_occured,
                   parent_awaited>>

-----------------------------------------------------------------------------

Dispatcher ==
    \/ RunStart \/ LoopCheckDequeue \/ LoopCheckInflight \/ LoopReadCurrent
    \/ LoopSendAmount \/ ForDone \/ DispatchPrebuilt \/ DispatchSpawn
    \/ InsertHandle \/ DispatchError \/ DropSender \/ JoinParent

Worker(n) == TaskStart(n) \/ TaskLogFail(n) \/ TaskFinish(n, "Ok") \/ TaskFinish(n, "Err")

Controller == CtrlRecv \/ CtrlWalk \/ CtrlDecrement \/ CtrlExit

Next ==
    \/ GraphAdd
    \/ GraphFetch
    \/ Dispatcher
    \/ \E n \in Nodes : Worker(n)
    \/ Controller

Spec == Init /\ [][Next]_vars

\* The runs with a single worker slot
FairInit == Init /\ batch_size = 1

\* Those runs under an executor that runs every task that can take a step.
FairSpec ==
    /\ FairInit
    /\ [][Next]_vars
    /\ WF_vars(GraphAdd \/ GraphFetch)
    /\ WF_vars(Dispatcher)
    /\ WF_vars(Controller)
    /\ \A n \in Nodes : WF_vars(Worker(n))

TypeOK ==
    /\ status \in [Nodes -> NodeStatus]
    /\ inflight \in 0..NumNodes
    /\ handles \subseteq Nodes
    /\ Len(channel) <= batch_size

-----------------------------------------------------------------------------
(* Properties *)

Terminal == {Success, Failed}
\* the node was popped from the ready queue by the dispatcher
dispatched(n) == task[n] # "none" \/ n \in prebuilt
InChannel(n) == \E k \in 1..Len(channel) : channel[k] = n
AnyFailed == \E n \in Nodes : status[n] = Failed

\* C1: no node enters Running before every one of its dependencies is in
\* state Success.
C1_DependenciesSuccessBeforeRunning ==
    [][\A n \in Nodes :
          (status[n] # Running /\ status'[n] = Running)
              => \A d \in parents(edges, n) : status[d] = Success]_vars

\* C2: if any node's transform task fails, run returns, and with an error.
C2_FailedTaskMakesRunFail ==
    (\E n \in Nodes : task_result[n] = "Err" /\ status[n] = Failed)
        ~> (result \notin {"none", "Ok"})

\* C3: every node of the graph is in a terminal state (Success or Failed) by
\* the time a run that executed the graph returns success.
C3_AllNodesTerminalAtReturn ==
    (pc = "returned" /\ result = "Ok" /\ ctrl # "none")
        => \A n \in index : status[n] \in Terminal

\* C4: once a node is Failed, no node is enqueued (Pending to Queued) and no
\* node that was not yet dispatched is dispatched or started.
C4_NothingNewAfterFailure ==
    [][AnyFailed =>
          \A n \in Nodes :
             /\ (status[n] = Pending => status'[n] = Pending)
             /\ (~dispatched(n) => ~dispatched(n)')]_vars

\* C5: every node marked Queued is eventually dispatched (unless the run is
\* aborted with an error), given that every task takes its steps.
C5_QueuedEventuallyDispatched ==
    <>[](\A n \in Nodes :
            status[n] = Queued => (dispatched(n) \/ result \notin {"none", "Ok"}))

\* C6: when run has returned, the controller task and every spawned node task
\* have been awaited.
C6_AllTasksAwaitedAtReturn ==
    pc = "returned" =>
        /\ (ctrl # "none" => parent_awaited)
        /\ \A n \in Nodes : task[n] # "none" => n \in awaited

\* C7: every change of a node's status is Pending to Queued, Queued to
\* Running, Running to Success, Running to Failed, or Queued to Success for a
\* node found pre-built at dispatch.
C7_LegalTransitions ==
    [][\A n \in Nodes :
          status'[n] # status[n] =>
             \/ status[n] = Pending /\ status'[n] = Queued
             \/ status[n] = Queued /\ status'[n] = Running
             \/ status[n] = Running /\ status'[n] = Success
             \/ status[n] = Running /\ status'[n] = Failed
             \/ status[n] = Queued /\ status'[n] = Success /\ n \in prebuilt]_vars

\* A run in which one node was short-circuited to Success, one ran to Success
\* and one ran to Failed.
C7_Witness ==
    \E a, b, c \in Nodes :
        /\ a \in prebuilt /\ status[a] = Success
        /\ b \notin prebuilt /\ status[b] = Success
        /\ status[c] = Failed

\* the nodes dispatched whose completion the controller has not processed
Unprocessed == {n \in Nodes : dispatched(n) /\ status[n] \notin Terminal}
LiveTasks == {n \in Nodes : task[n] \in {"spawned", "running"}}

\* C8: the inflight counter, the number of dispatched nodes whose completion
\* is not yet processed and the number of live node tasks never exceed
\* batch_size.
C8_InflightBounded ==
    /\ inflight <= batch_size
    /\ Cardinality(Unprocessed) <= batch_size
    /\ Cardinality(LiveTasks) <= batch_size

\* Every worker slot is taken by a live task while a queued node waits.
C8_Witness ==
    /\ LiveTasks # {}
    /\ inflight = batch_size
    /\ Cardinality(LiveTasks) = batch_size
    /\ dequeue # <<>>

\* the declared dependencies as edges, and the transforms the target reaches
DependsEdges == {e \in Nodes \X Nodes : e[2] \in depends[e[1]]}
Reachable == {Target} \cup ReachFrom(DependsEdges, {Target}, {})
Cyclic == \E n \in Reachable : n \in ReachFrom(DependsEdges, {n}, {})

C10_PrebuiltShortCircuit ==
    \A n \in prebuilt :
        /\ task[n] = "none"
        /\ n \notin handles
        /\ \/ InChannel(n) /\ status[n] = Queued
           \/ ~InChannel(n) /\ status[n] = Success

\* A pre-built node ended in Success in a run in which another node was built.
C10_Witness ==
    \E n \in prebuilt, m \in Nodes :
        status[n] = Success /\ task_result[m] = "Ok" /\ status[m] = Success

\* C32: every run eventually returns, given that every task takes its steps
\* and every transform invocation and storage call terminates; also after a
\* node has failed and after a task has failed before its transform.
C32_RunEventuallyReturns == <>(pc = "returned")

\* C33: a node is Success only if its task returned Ok or it was found
\* pre-built at dispatch; a node whose task returned an error is never
\* Success.
C33_SuccessOnlyAfterOk ==
    \A n \in Nodes :
        status[n] = Success => (task_result[n] = "Ok" \/ n \in prebuilt)

\* C34: whenever a node is Success, its artifact is in the local backend.
C34_SuccessIsLocal ==
    \A n \in Nodes : status[n] = Success => n \in local

\* the places of node n in the ready queue
queued_at(n) == {k \in DOMAIN dequeue : dequeue[k] = n}

\* C35: each node is enqueued and dispatched at most once in a run: a node is
\* in the ready queue at most once and only while it is Queued and not yet
\* dispatched, and only a node that has had no task is given one.
C35_EnqueuedAndDispatchedOnce ==
    /\ [](\A n \in Nodes :
            /\ Cardinality(queued_at(n)) <= 1
            /\ queued_at(n) # {} => (status[n] = Queued /\ ~dispatched(n)))
    /\ [][\A n \in Nodes :
            (task'[n] = "spawned" /\ task[n] # "spawned")
                => (task[n] = "none" /\ n \notin prebuilt)]_vars

\* A node with two dependencies, built by tasks of their own, was built by
\* a task of its own after them.
C35_Witness ==
    \E n \in Nodes :
        /\ Cardinality(parents(edges, n)) = 2
        /\ \A p \in parents(edges, n) : task_result[p] = "Ok"
        /\ task_result[n] = "Ok" /\ status[n] = Success

\* the artifacts that were in the local backend or the build cache before the
\* run: what is stored now, less what the run's own tasks built
AvailableAtStart == (local \cup build) \ {n \in Nodes : task_result[n] = "Ok"}

-----------------------------------------------------------------------------
(* Graph::transform: the execution of one node, with execute and its       *)
(* interactive retry loop (scheduler/execute.rs)                            *)

TransformStatus == {"Success", "Retryable", "Failed"}

\* Every step of Graph::transform that may fail returns its error with `?`.
fail(e) == xpc' = "returned" /\ xresult' = e

\* TempDir::new_in, transform.environment(), ctx.create_environment(..)
CreateEnvironment ==
    /\ xpc = "create"
    /\ \E e \in {"none", "TemporaryDirectory", "Environment"} :
          IF e = "none" THEN xpc' = "setup" /\ xresult' = xresult ELSE fail(e)
    /\ UNCHANGED <<scheduler, backend, others, can_shell, attempts, attempt_result, log_file,
                   ans, exec_result, artifact, uploads, env_calls>>

\* `environment.setup(log, ctx.storage()).await?`
EnvironmentSetup ==
    /\ xpc = "setup"
    /\ env_calls' = Append(env_calls, "setup")
    /\ \E ok \in BOOLEAN :
          IF ok THEN xpc' = "up" /\ xresult' = xresult ELSE fail("Environment")
    /\ UNCHANGED <<scheduler, backend, others, can_shell, attempts, attempt_result, log_file,
                   ans, exec_result, artifact, uploads>>

\* `environment.up(log).await?`
EnvironmentUp ==
    /\ xpc = "up"
    /\ env_calls' = Append(env_calls, "up")
    /\ \E ok \in BOOLEAN :
          IF ok THEN xpc' = "stage" /\ xresult' = xresult ELSE fail("Environment")
    /\ UNCHANGED <<scheduler, backend, others, can_shell, attempts, attempt_result, log_file,
                   ans, exec_result, artifact, uploads>>

\* `transform.stage(log, ctx, &environment).await?`
Stage ==
    /\ xpc = "stage"
    /\ \E ok \in BOOLEAN :
          IF ok THEN xpc' = "attempt" /\ xresult' = xresult ELSE fail("Transform")
    /\ UNCHANGED <<scheduler, backend, others, can_shell, attempts, attempt_result, log_file,
                   ans, exec_result, artifact, uploads, env_calls>>

\* the result is uploaded whatever the attempt returned
after_attempt_always_upload(st) == "upload"

\* `match &attempt_result`: Success breaks out of the loop to the upload, a
\* Retryable or Failed status prompts the user.
after_attempt(st) == IF st = "Success" THEN "upload" ELSE "prompt"

\* execute, `let attempt_result = transform.transform(log, ctx, env).await`
\* and the match on it: Success leaves the loop with the attempt's artifact,
\* anything else goes to the prompt.
TransformAttempt ==
    /\ xpc = "attempt"
    /\ attempts < MaxAttempts
    /\ attempts' = attempts + 1
    /\ \E st \in TransformStatus, lf \in BOOLEAN :
          /\ attempt_result' = st
          /\ log_file' = (lf /\ st # "Success")
          /\ xpc' = after_attempt(st)
          /\ IF st = "Success"
             THEN exec_result' = "Ok" /\ artifact' = attempts'
             ELSE UNCHANGED <<exec_result, artifact>>
    /\ UNCHANGED <<scheduler, backend, others, can_shell, ans, uploads, env_calls, xresult>>

\* retry is offered after a Failed status as well
options_always_retry(st, lf, cs) ==
    (IF lf THEN {"view log"} ELSE {}) \cup {"retry"}
        \cup (IF cs THEN {"shell"} ELSE {}) \cup {"quit"}

\* execute, `let mut options = Vec::new(); ..`: the choices offered after an
\* attempt with status st, with a log file (lf), of a transform that can open
\* a shell (cs).
options(st, lf, cs) ==
    (IF lf THEN {"view log"} ELSE {})
        \cup (IF st = "Retryable" THEN {"retry"} ELSE {})
        \cup (IF cs THEN {"shell"} ELSE {}) \cup {"quit"}

Offered == options(attempt_result, log_file, can_shell)

\* An error inside the prompt closure leaves execute through the `?` after
\* suspend_tracing_indicatif: nothing is uploaded.
abort(e) == xpc' = "down" /\ exec_result' = e

\* `Select::new()...interact().context(error::InquireSnafu)?` fails
PromptSelectFail ==
    /\ xpc = "prompt"
    /\ ans' = "none"
    /\ abort("Inquire")
    /\ UNCHANGED <<scheduler, backend, others, can_shell, attempts, attempt_result, log_file,
                   artifact, uploads, env_calls, xresult>>

\* "view log": read_to_string and the editor, then `continue 'prompt`
PromptViewLog ==
    /\ xpc = "prompt"
    /\ "view log" \in Offered
    /\ ans' = "view log"
    /\ \E e \in {"none", "Io", "Inquire"} :
          IF e = "none" THEN UNCHANGED <<xpc, exec_result>> ELSE abort(e)
    /\ UNCHANGED <<scheduler, backend, others, can_shell, attempts, attempt_result, log_file,
                   artifact, uploads, env_calls, xresult>>

\* "shell": `transform.shell(env)?; continue 'prompt`
PromptShell ==
    /\ xpc = "prompt"
    /\ "shell" \in Offered
    /\ ans' = "shell"
    /\ \E e \in {"none", "Transform"} :
          IF e = "none" THEN UNCHANGED <<xpc, exec_result>> ELSE abort(e)
    /\ UNCHANGED <<scheduler, backend, others, can_shell, attempts, attempt_result, log_file,
                   artifact, uploads, env_calls, xresult>>

\* "retry": the closure returns Ok(false) and the 'transform loop goes round
PromptRetry ==
    /\ xpc = "prompt"
    /\ "retry" \in Offered
    /\ ans' = "retry"
    /\ xpc' = "attempt"
    /\ UNCHANGED <<scheduler, backend, others, can_shell, attempts, attempt_result, log_file,
                   exec_result, artifact, uploads, env_calls, xresult>>

\* "quit": should_quit, `result = PassthroughSnafu { message: e.to_string() }
\* .fail(); break 'transform`, and the final match returns that error
PromptQuit ==
    /\ xpc = "prompt"
    /\ "quit" \in Offered
    /\ ans' = "quit"
    /\ xpc' = "down"
    /\ exec_result' = "Passthrough"
    /\ UNCHANGED <<scheduler, backend, others, can_shell, attempts, attempt_result, log_file,
                   artifact, uploads, env_calls, xresult>>

\* `Ok(artifact) => { ctx.storage().upload_build(artifact.config().id()).await?;
\* Ok(artifact) }`
UploadBuild ==
    /\ xpc = "upload"
    /\ uploads' = Append(uploads, artifact)
    /\ \E ok \in BOOLEAN : exec_result' = IF ok THEN "Ok" ELSE "Storage"
    /\ xpc' = "down"
    /\ UNCHANGED <<scheduler, backend, others, can_shell, attempts, attempt_result, log_file,
                   ans, artifact, env_calls, xresult>>

\* Graph::transform after execute returned: `environment.down(log).await?`
EnvironmentDown ==
    /\ xpc = "down"
    /\ env_calls' = Append(env_calls, "down")
    /\ \E ok \in BOOLEAN :
          IF ok THEN xpc' = "clean" /\ xresult' = xresult ELSE fail("Environment")
    /\ UNCHANGED <<scheduler, backend, others, can_shell, attempts, attempt_result, log_file,
                   ans, exec_result, artifact, uploads>>

\* `environment.clean(log).await?`
EnvironmentClean ==
    /\ xpc = "clean"
    /\ env_calls' = Append(env_calls, "clean")
    /\ \E ok \in BOOLEAN :
          IF ok THEN xpc' = "match" /\ xresult' = xresult ELSE fail("Environment")
    /\ UNCHANGED <<scheduler, backend, others, can_shell, attempts, attempt_result, log_file,
                   ans, exec_result, artifact, uploads>>

\* `match artifact { Ok(artifact) => Ok(artifact), Err(e) => Err(e) }`
TransformReturn ==
    /\ xpc = "match"
    /\ xpc' = "returned"
    /\ xresult' = exec_result
    /\ UNCHANGED <<scheduler, backend, others, can_shell, attempts, attempt_result, log_file,
                   ans, exec_result, artifact, uploads, env_calls>>

\* The scheduler is not running.
SchedulerIdle ==
    /\ depends = [n \in Nodes |-> {}]
    /\ batch_size = 1
    /\ local = {}
    /\ build = {}
    /\ NewGraph

\* Graph::transform is entered for a node.
ExecInit ==
    /\ SchedulerIdle
    /\ xpc = "create"
    /\ can_shell \in BOOLEAN
    /\ attempts = 0
    /\ attempt_result = "none"
    /\ log_file = FALSE
    /\ ans = "none"
    /\ exec_result = "NoRun"
    /\ artifact = 0
    /\ uploads = <<>>
    /\ env_calls = <<>>
    /\ xresult = "none"
    /\ NoBackend
    /\ NoOthers

ExecNext ==
    \/ CreateEnvironment \/ EnvironmentSetup \/ EnvironmentUp \/ Stage
    \/ TransformAttempt
    \/ PromptSelectFail \/ PromptViewLog \/ PromptShell \/ PromptRetry
    \/ PromptQuit
    \/ UploadBuild
    \/ EnvironmentDown \/ EnvironmentClean \/ TransformReturn

ExecSpec == ExecInit /\ [][ExecNext]_vars

-----------------------------------------------------------------------------
(* Properties of the execution of a node *)

\* C12: in every execution that reached the transform step, environment.down
\* and then environment.clean have been invoked by the time Graph::transform
\* returns, whatever the outcome of the transform step.
C12_DownThenCleanAfterTransform ==
    (xpc = "returned" /\ attempts > 0) =>
        /\ Len(env_calls) >= 2
        /\ env_calls[Len(env_calls) - 1] = "down"
        /\ env_calls[Len(env_calls)] = "clean"

\* C36: an environment that was created (setup is the first call made on
\* it) has had clean invoked by the time Graph::transform returns, whichever
\* of setup, up, stage, down failed.
C36_CreatedEnvironmentIsCleaned ==
    (xpc = "returned" /\ env_calls # <<>>) =>
        \E k \in DOMAIN env_calls : env_calls[k] = "clean"

\* the errors with which viewing the log or the shell can end execute
PromptErrors == {"Io", "Inquire", "Transform"}

\* C13, as stated: at the prompt, "view log" and "shell" return to the prompt
\* without another attempt; "retry" is chosen only after a Retryable status
\* and leads to another attempt; "quit" ends the loop with the transform's
\* error; after a Failed status there is no other attempt. transform.transform
\* is invoked again only through "retry".
C13_PromptChoices ==
    [][/\ xpc = "prompt" =>
             /\ ans' \in {"view log", "shell"} =>
                    xpc' = "prompt" /\ attempts' = attempts
             /\ ans' = "retry" => attempt_result = "Retryable" /\ xpc' = "attempt"
             /\ ans' = "quit" => xpc' = "down" /\ exec_result' = "Passthrough"
             /\ attempt_result = "Failed" => xpc' # "attempt"
       /\ attempts' # attempts =>
             \/ attempts = 0
             \/ ans = "retry" /\ attempt_result = "Retryable"]_vars

\* C13, amended: as above, except that "view log" and "shell" return to the
\* prompt only when reading the log, the editor and the shell succeed; when
\* one of them fails execute ends with that error, still without another
\* attempt.
C13_PromptChoicesOrAbort ==
    [][/\ xpc = "prompt" =>
             /\ ans' \in {"view log", "shell"} =>
                    /\ attempts' = attempts
                    /\ \/ xpc' = "prompt"
                       \/ xpc' = "down" /\ exec_result' \in PromptErrors
             /\ ans' = "retry" => attempt_result = "Retryable" /\ xpc' = "attempt"
             /\ ans' = "quit" => xpc' = "down" /\ exec_result' = "Passthrough"
             /\ attempt_result = "Failed" => xpc' # "attempt"
       /\ attempts' # attempts =>
             \/ attempts = 0
             \/ ans = "retry" /\ attempt_result = "Retryable"]_vars

\* After a retry the transform returned Failed, the user viewed the log and
\* is at the prompt again.
C13_Witness ==
    /\ attempts = 2
    /\ attempt_result = "Failed"
    /\ ans = "view log"
    /\ xpc = "prompt"

\* C14: upload_build is invoked at most once in an execution, only after an
\* attempt that returned Success and with the artifact of that attempt, which
\* is the last one; once execute has returned after a successful attempt it
\* has been invoked exactly once.
C14_UploadOnceAfterSuccess ==
    /\ Len(uploads) <= 1
    /\ \A i \in 1..Len(uploads) :
          attempt_result = "Success" /\ uploads[i] = attempts
    /\ (attempt_result = "Success" /\ xpc \in {"down", "clean", "match", "returned"})
          => Len(uploads) = 1

\* The transform was retried and then succeeded; its artifact was uploaded
\* and Graph::transform returned it.
C14_Witness ==
    /\ attempts > 1
    /\ uploads = <<attempts>>
    /\ xresult = "Ok"

-----------------------------------------------------------------------------
(* A storage backend: LocalBackend (storage/local.rs) and S3Backend         *)
(* (storage/s3/mod.rs). Every call reads the catalog with load and writes  *)
(* it back with flush; load and flush each take the lock for themselves.   *)

\* the locals of caller c at the start of a call
enter(c, o, at) == [Idle("none") EXCEPT !.op = o, !.pc = at]

\* the call of the backend's interface that caller c is in
outermost(c) == IF cl[c].outer = "none" THEN cl[c].op ELSE cl[c].outer

\* Caller c leaves its innermost call with res: a del made by prune goes back
\* to prune's loop (`self.del(&entry).await?`), anything else ends the call
\* of the interface (whose arguments stay on record).
return(c, res) ==
    cl' = [cl EXCEPT ![c] =
              IF cl[c].outer = "prune" /\ res = "Ok"
              THEN [enter(c, "prune", "next") EXCEPT
                       !.pid = cl[c].pid, !.todo = cl[c].todo]
              ELSE [Idle(res) EXCEPT
                       !.was = outermost(c), !.id = cl[c].id, !.to = cl[c].to,
                       !.pid = cl[c].pid]]

\* caller c may start a call
free(c) == c \in active /\ cl[c].op = "idle" /\ ops < MaxOps

\* start_layer, the write and finish_layer: the blob is at its digest.
FinishLayer(c) ==
    /\ free(c)
    /\ ops' = ops + 1
    /\ \E d \in Blobs : blobs' = blobs \cup {d}
    /\ cl' = [cl EXCEPT ![c] = [Idle("Ok") EXCEPT !.was = "finish_layer"]]
    /\ UNCHANGED <<scheduler, execution, others, kind, catalog_file, active>>

\* the calls of BackendImpl::save, del, copy and prune
CallSave(c) ==
    /\ free(c)
    /\ ops' = ops + 1
    /\ \E a \in Artifacts :
          cl' = [cl EXCEPT ![c] = [enter(c, "save", "check") EXCEPT !.art = a]]
    /\ UNCHANGED <<scheduler, execution, others, kind, catalog_file, blobs, active>>

CallDel(c) ==
    /\ free(c)
    /\ ops' = ops + 1
    /\ \E id \in Ids :
          cl' = [cl EXCEPT ![c] = [enter(c, "del", "has") EXCEPT !.id = id]]
    /\ UNCHANGED <<scheduler, execution, others, kind, catalog_file, blobs, active>>

CallCopy(c) ==
    /\ free(c)
    /\ ops' = ops + 1
    /\ \E from \in Ids, to \in Ids :
          cl' = [cl EXCEPT ![c] =
                    [enter(c, "copy", "open") EXCEPT !.id = from, !.to = to]]
    /\ UNCHANGED <<scheduler, execution, others, kind, catalog_file, blobs, active>>

CallPrune(c) ==
    /\ free(c)
    /\ ops' = ops + 1
    /\ \E id \in Ids :
          cl' = [cl EXCEPT ![c] = [enter(c, "prune", "load") EXCEPT !.pid = id]]
    /\ UNCHANGED <<scheduler, execution, others, kind, catalog_file, blobs, active>>

\* LocalBackend::save, `ensure!(blob_path.exists(), LayerMissingSnafu ..)` for
\* every layer; S3Backend::save has no such check.
layers_present(k, a) == k = "s3" \/ digests(a.layers) \subseteq blobs

SaveCheck(c) ==
    /\ cl[c].op = "save" /\ cl[c].pc = "check"
    /\ IF layers_present(kind, cl[c].art)
       THEN cl' = [cl EXCEPT ![c].pc = "load"]
       ELSE return(c, "LayerMissing")
    /\ UNCHANGED <<scheduler, execution, others, kind, catalog_file, blobs, active, ops>>

\* save, `let mut catalog = self.load()?`
SaveLoad(c) ==
    /\ cl[c].op = "save" /\ cl[c].pc = "load"
    /\ cl' = [cl EXCEPT ![c].cat = catalog_file, ![c].pc = "flush"]
    /\ UNCHANGED <<scheduler, execution, others, kind, catalog_file, blobs, active, ops>>

\* save, `catalog.add(artifact); self.flush(&catalog)?; Ok(())`
SaveFlush(c) ==
    /\ cl[c].op = "save" /\ cl[c].pc = "flush"
    /\ catalog_file' = Catalog_add(cl[c].cat, cl[c].art)
    /\ return(c, "Ok")
    /\ UNCHANGED <<scheduler, execution, others, kind, blobs, active, ops>>

\* del, `if !self.has(id).await? { return Ok(()); }`
DelHas(c) ==
    /\ cl[c].op = "del" /\ cl[c].pc = "has"
    /\ IF has(catalog_file, cl[c].id)
       THEN cl' = [cl EXCEPT ![c].pc = "load"]
       ELSE return(c, "Ok")
    /\ UNCHANGED <<scheduler, execution, others, kind, catalog_file, blobs, active, ops>>

\* del, `let mut catalog = self.load()?; let artifact = catalog.get(id)
\* .context(NotFoundSnafu ..)?.clone()`
DelLoad(c) ==
    /\ cl[c].op = "del" /\ cl[c].pc = "load"
    /\ IF has(catalog_file, cl[c].id)
       THEN cl' = [cl EXCEPT ![c].cat = catalog_file,
                             ![c].art = catalog_file.manifests[cl[c].id],
                             ![c].pc = "flush"]
       ELSE return(c, "NotFound")
    /\ UNCHANGED <<scheduler, execution, others, kind, catalog_file, blobs, active, ops>>

\* del, `catalog.del(id); self.flush(&catalog)?`
DelFlush(c) ==
    /\ cl[c].op = "del" /\ cl[c].pc = "flush"
    /\ catalog_file' = Catalog_del(cl[c].cat, cl[c].id)
    /\ cl' = [cl EXCEPT ![c].cat = catalog_file', ![c].pc = "blobs"]
    /\ UNCHANGED <<scheduler, execution, others, kind, blobs, active, ops>>

\* del, the loop that removes every layer's blob whose count is <= 0 in the
\* catalog that was just written
DelBlobs(c) ==
    /\ cl[c].op = "del" /\ cl[c].pc = "blobs"
    /\ blobs' = blobs \ {d \in digests(cl[c].art.layers) : count(cl[c].cat, d) <= 0}
    /\ return(c, "Ok")
    /\ UNCHANGED <<scheduler, execution, others, kind, catalog_file, active, ops>>

\* the manifest is made anew for the id, without its layers
with_id_only(a, to) == [id |-> to, layers |-> <<>>]

\* copy, `*artifact.config_mut().id_mut() = to.clone()`
with_id(a, to) == [a EXCEPT !.id = to]

\* copy, `let mut artifact = self.open(from).await?` and the call of save
CopyOpen(c) ==
    /\ cl[c].op = "copy" /\ cl[c].pc = "open"
    /\ IF has(catalog_file, cl[c].id)
       THEN cl' = [cl EXCEPT ![c] =
                      [enter(c, "save", "check") EXCEPT
                          !.outer = "copy", !.id = cl[c].id, !.to = cl[c].to,
                          !.art = with_id(catalog_file.manifests[cl[c].id], cl[c].to)]]
       ELSE return(c, "NotFound")
    /\ UNCHANGED <<scheduler, execution, others, kind, catalog_file, blobs, active, ops>>

\* prune, `let catalog = self.load()?` and the entries the loop will delete:
\* `for entry in catalog.matching(id) { if entry == *id { continue; } ..`
PruneLoad(c) ==
    /\ cl[c].op = "prune" /\ cl[c].pc = "load"
    /\ cl' = [cl EXCEPT ![c].todo = matching(catalog_file, cl[c].pid) \ {cl[c].pid},
                        ![c].pc = "next"]
    /\ UNCHANGED <<scheduler, execution, others, kind, catalog_file, blobs, active, ops>>

\* the next entry of a BTreeSet of ids that have one prefix
first(ids) == CHOOSE e \in ids : \A f \in ids : e.digest <= f.digest

\* prune, one round of the loop: `self.del(&entry).await?`, or `Ok(())`
PruneNext(c) ==
    /\ cl[c].op = "prune" /\ cl[c].pc = "next"
    /\ IF cl[c].todo = {}
       THEN return(c, "Ok")
       ELSE cl' = [cl EXCEPT ![c] =
                      [enter(c, "del", "has") EXCEPT
                          !.outer = "prune", !.pid = cl[c].pid,
                          !.id = first(cl[c].todo),
                          !.todo = cl[c].todo \ {first(cl[c].todo)}]]
    /\ UNCHANGED <<scheduler, execution, others, kind, catalog_file, blobs, active, ops>>

Call(c) ==
    \/ FinishLayer(c) \/ CallSave(c) \/ CallDel(c) \/ CallCopy(c) \/ CallPrune(c)
    \/ SaveCheck(c) \/ SaveLoad(c) \/ SaveFlush(c)
    \/ DelHas(c) \/ DelLoad(c) \/ DelFlush(c) \/ DelBlobs(c)
    \/ CopyOpen(c)
    \/ PruneLoad(c) \/ PruneNext(c)

BackendNext == \E c \in Clients : Call(c)

\* A new, empty backend of either kind with one caller.
StoreInit ==
    /\ SchedulerIdle
    /\ NoExecution
    /\ kind \in {"local", "s3"}
    /\ catalog_file = EmptyCatalog
    /\ blobs = {}
    /\ cl = [c \in Clients |-> Idle("none")]
    /\ active = {1}
    /\ ops = 0
    /\ NoOthers

StoreSpec == StoreInit /\ [][BackendNext]_vars

\* A new, empty LocalBackend with one caller.
LocalInit == StoreInit /\ kind = "local"

LocalSpec == LocalInit /\ [][BackendNext]_vars

\* A new, empty local backend shared by concurrent callers (the tasks of the
\* scheduler, through Storage's read lock).
SharedInit ==
    /\ SchedulerIdle
    /\ NoExecution
    /\ kind = "local"
    /\ catalog_file = EmptyCatalog
    /\ blobs = {}
    /\ cl = [c \in Clients |-> Idle("none")]
    /\ active = Clients
    /\ ops = 0
    /\ NoOthers

SharedSpec == SharedInit /\ [][BackendNext]_vars

-----------------------------------------------------------------------------
(* Properties of a backend *)

AllIdle == \A c \in Clients : cl[c].op = "idle"
\* the stored manifests whose layers include digest d
referencing(cat, d) ==
    {id \in DOMAIN cat.manifests : d \in digests(cat.manifests[id].layers)}

\* C15: between calls, blob_counts[d] (0 when d is no key) is the number of
\* stored manifests whose layers include digest d.
C15_BlobCountsAreReferenceCounts ==
    AllIdle =>
        \A d \in Blobs :
            count(catalog_file, d) = Cardinality(referencing(catalog_file, d))

\* C16: when a del has removed its blobs, no layer of the deleted manifest
\* has a blob left unless it is a key of blob_counts and some stored manifest
\* references it: removing the last manifest that references a blob deletes
\* the blob.
C16_LastReferenceRemovesBlob ==
    [][\A c \in Clients :
          (cl[c].op = "del" /\ cl[c].pc = "blobs" /\ cl'[c].pc # "blobs") =>
              \A d \in digests(cl[c].art.layers) \cap blobs' :
                  /\ d \in DOMAIN catalog_file'.blob_counts
                  /\ referencing(catalog_file', d) # {}]_vars

\* C17: on either backend, a save of an artifact one of whose layers has no
\* blob in the backend returns LayerMissing as its next step and leaves the
\* catalog unchanged.
C17_SaveRefusesMissingLayer ==
    [][\A c \in Clients :
          (/\ cl[c].op = "save"
           /\ cl'[c] # cl[c]
           /\ ~(digests(cl[c].art.layers) \subseteq blobs)) =>
              cl'[c].res = "LayerMissing" /\ catalog_file' = catalog_file]_vars

\* C18: with concurrent callers, the flush that ends a save or a del removes
\* no manifest from the catalog except the one that del deletes: no manifest
\* whose save returned success is lost.
C18_FlushKeepsOtherManifests ==
    [][\A c \in Clients :
          (cl[c].pc = "flush" /\ cl'[c].pc # "flush") =>
              (DOMAIN catalog_file.manifests
                   \ (IF cl[c].op = "del" THEN {cl[c].id} ELSE {}))
                 \subseteq DOMAIN catalog_file'.manifests]_vars

\* C37: once every concurrent save, del, copy and prune has returned, each
\* manifest stored in the catalog has the blob of every one of its layers.
C37_StoredManifestsHaveTheirBlobs ==
    AllIdle =>
        \A id \in DOMAIN catalog_file.manifests :
            digests(catalog_file.manifests[id].layers) \subseteq blobs

\* C19: no step of copy(from, to) changes the set of blobs, and when copy
\* returns success both ids are stored with the same layers.
C19_CopySharesLayers ==
    [][\A c \in Clients :
          /\ outermost(c) = "copy" => blobs' = blobs
          /\ (outermost(c) = "copy" /\ cl'[c].op = "idle" /\ cl'[c].res = "Ok") =>
                /\ has(catalog_file', cl[c].id)
                /\ has(catalog_file', cl[c].to)
                /\ catalog_file'.manifests[cl[c].to].layers
                      = catalog_file'.manifests[cl[c].id].layers]_vars

\* A copy to another id of a manifest that has layers returned success.
C19_Witness ==
    \E c \in Clients :
        /\ cl[c].was = "copy" /\ cl[c].res = "Ok"
        /\ cl[c].id # cl[c].to
        /\ has(catalog_file, cl[c].to)
        /\ catalog_file.manifests[cl[c].to].layers # <<>>

-----------------------------------------------------------------------------
(* Synchronising the layers of an artifact between two backends:           *)
(* Inner::download and Inner::upload spawn one task per layer, wait for    *)
(* them with `wait` and then save the manifest in the destination, which   *)
(* is the backend of the model (kind, blobs, catalog_file).                *)

\* the layers a task was spawned for
spawned == {i \in LayerIndex : layer_tasks[i] # "none"}

\* `for layer in artifact.layers() { handles.push(tokio::spawn(..)) }`
SpawnLayers ==
    /\ sync_pc = "spawn"
    /\ layer_tasks' = [i \in LayerIndex |->
                         IF i <= Len(sync_artifact.layers) THEN "running"
                                                           ELSE "none"]
    /\ sync_pc' = "wait"
    /\ UNCHANGED <<beside_sync, backend, sync_op, sync_artifact,
                   sync_result, failures>>

\* A layer task reads the layer from the origin and writes it to the
\* destination: read, start_layer, io::copy, finish_layer all Ok.
LayerCopy(i) ==
    /\ layer_tasks[i] = "running"
    /\ layer_tasks' = [layer_tasks EXCEPT ![i] = "Ok"]
    /\ blobs' = blobs \cup {sync_artifact.layers[i]}
    /\ UNCHANGED <<beside_sync, kind, catalog_file, cl, active, ops,
                   sync_pc, sync_op, sync_artifact, sync_result, failures>>

\* One of the four `?` of a layer task returns its error.
LayerFail(i) ==
    /\ layer_tasks[i] = "running"
    /\ layer_tasks' = [layer_tasks EXCEPT ![i] = "Err"]
    /\ UNCHANGED <<beside_sync, backend, sync_pc, sync_op,
                   sync_artifact, sync_result, failures>>

\* A layer task panics (S3Backend::finish_layer unwraps the upload id of the
\* response, for one): awaiting its JoinHandle gives a JoinError.
LayerPanic(i) ==
    /\ layer_tasks[i] = "running"
    /\ layer_tasks' = [layer_tasks EXCEPT ![i] = "Panic"]
    /\ UNCHANGED <<beside_sync, backend, sync_pc, sync_op,
                   sync_artifact, sync_result, failures>>

\* what try_join_all(handles) can resolve to in the current state: the
\* JoinError of a task as soon as one has panicked, the tasks' results once
\* every handle is ready
try_join_all ==
    IF \E i \in spawned : layer_tasks[i] = "Panic" THEN "JoinError"
    ELSE IF \A i \in spawned : layer_tasks[i] # "running" THEN "Ready"
    ELSE "Pending"

\* wait(handles): `result.context(error::JoinSnafu)?`, then the results are
\* split into success and failures, and failures make one Child error.
Wait ==
    /\ sync_pc = "wait"
    /\ try_join_all # "Pending"
    /\ LET errs == {i \in spawned : layer_tasks[i] = "Err"} IN
          IF try_join_all = "JoinError"
             THEN sync_result' = "Join" /\ sync_pc' = "returned"
                  /\ UNCHANGED failures
          ELSE IF errs # {}
             THEN sync_result' = "Child" /\ failures' = errs
                  /\ sync_pc' = "returned"
             ELSE sync_pc' = "save" /\ UNCHANGED <<sync_result, failures>>
    /\ UNCHANGED <<beside_sync, backend, sync_op, sync_artifact,
                   layer_tasks>>

\* `self.local.save(artifact).await?` / `backend.save(artifact).await?`
SaveManifest ==
    /\ sync_pc = "save"
    /\ IF layers_present(kind, sync_artifact)
          THEN /\ catalog_file' = Catalog_add(catalog_file, sync_artifact)
               /\ sync_result' = "Ok"
          ELSE /\ sync_result' = "LayerMissing"
               /\ UNCHANGED catalog_file
    /\ sync_pc' = "returned"
    /\ UNCHANGED <<beside_sync, kind, blobs, cl, active, ops,
                   sync_op, sync_artifact, layer_tasks, failures>>

\* Inner::download (fetch_source, find_build with sync) or Inner::upload
\* (upload_build) is entered for an artifact that the destination, a new
\* backend of either kind, does not have.
SyncInit ==
    /\ SchedulerIdle
    /\ NoExecution
    /\ NoLoading
    /\ NoResolving
    /\ NoPluginHost
    /\ NoMedia
    /\ NoFurther
    /\ kind \in {"local", "s3"}
    /\ catalog_file = EmptyCatalog
    /\ blobs = {}
    /\ cl = [c \in Clients |-> Idle("none")]
    /\ active = {}
    /\ ops = 0
    /\ sync_pc = "spawn"
    /\ sync_op \in {"download", "upload"}
    /\ sync_artifact \in Artifacts
    /\ layer_tasks = [i \in LayerIndex |-> "none"]
    /\ sync_result = "none"
    /\ failures = {}

SyncNext ==
    \/ SpawnLayers
    \/ \E i \in LayerIndex : LayerCopy(i) \/ LayerFail(i) \/ LayerPanic(i)
    \/ Wait
    \/ SaveManifest

SyncSpec == SyncInit /\ [][SyncNext]_vars

\* C21: when the layers of an artifact have been synchronised (the operation
\* has returned), every layer task has been joined; if a layer task failed
\* the result is the composite error that carries the failures of all the
\* failed tasks and the destination has no manifest of the artifact;
\* otherwise every layer is in the destination and the manifest is saved.
C21_SyncJoinsAllLayerTasks ==
    sync_pc = "returned" =>
       LET failed == {i \in spawned : layer_tasks[i] \in {"Err", "Panic"}} IN
          /\ \A i \in spawned : layer_tasks[i] # "running"
          /\ IF failed # {}
                THEN /\ sync_result = "Child"
                     /\ failures = failed
                     /\ ~has(catalog_file, sync_artifact.id)
                ELSE /\ sync_result = "Ok"
                     /\ digests(sync_artifact.layers) \subseteq blobs
                     /\ has(catalog_file, sync_artifact.id)
                     /\ Lookup(catalog_file.manifests, sync_artifact.id,
                               NoArtifact) = sync_artifact

-----------------------------------------------------------------------------
(* Loading a project: Project::load walks the project files into the maps  *)
(* of the Project and Project::build reuses edo.lock.json or resolves the  *)
(* wanted dependencies and writes a new one. What the vendors answer is    *)
(* outside the program: the outcome of a resolution is any outcome the     *)
(* Resolver can give for the requirements.                                 *)

load_inputs == <<declared, entry, error_on_lock, lock_at_start>>

\* self.<kind>s.insert(addr, node), after self.need_resolution.insert(caddr,
\* entry) for a `wants` entry: BTreeMap::insert replaces the value of a key
\* that is present.
insert(p, d) ==
    LET addr == <<d.name>>
        q == IF d.wants
                THEN [p EXCEPT !.need_resolution =
                                  Put(@, <<d.name, Wanted>>, Unresolved)]
                ELSE p
    IN  CASE d.kind = "vendor" -> [q EXCEPT !.vendors = Put(@, addr, d)]
          [] d.kind = "environment" ->
                [q EXCEPT !.environments = Put(@, addr, d)]
          [] d.kind = "transform" -> [q EXCEPT !.transforms = Put(@, addr, d)]
          [] d.kind = "plugin" -> [q EXCEPT !.plugins = Put(@, addr, d)]

\* walk / load_file: the next block of the project files is loaded.
LoadBlock ==
    /\ load_pc = "walk"
    /\ walked < Len(declared)
    /\ proj' = insert(proj, declared[walked + 1])
    /\ walked' = walked + 1
    /\ UNCHANGED <<beside_loading, load_inputs, load_pc, lock_file, lock,
                   registered, queried, node_data, resolves, writes,
                   load_result>>

\* The head of build: what it does with the file it finds, "Serialize" and
\* "DependencyChange" being the errors it returns.
lock_branch_error_first(file, digest, eol) ==
    IF file.state = "absent" THEN "vendors"
    ELSE IF file.state # "complete" THEN "Serialize"
    ELSE IF eol THEN "DependencyChange"
    ELSE IF file.lock.digest = digest THEN "reuse"
    ELSE "vendors"
lock_branch(file, digest, eol) ==
    IF file.state = "absent" THEN "vendors"
    ELSE IF file.state # "complete" THEN "Serialize"
    ELSE IF file.lock.digest = digest THEN "reuse"
    ELSE IF eol THEN "DependencyChange"
    ELSE "vendors"

\* build: calculate_digest, `if lock_file.exists()`, serde_json::from_reader,
\* `if lock.digest == digest`, `else if .. && error_on_lock`
CheckLock ==
    /\ load_pc = "walk"
    /\ walked = Len(declared)
    /\ LET b == lock_branch(lock_file,
                            calculate_digest(proj.need_resolution),
                            error_on_lock) IN
          IF b \in {"Serialize", "DependencyChange"}
             THEN load_pc' = "returned" /\ load_result' = b
             ELSE load_pc' = b /\ UNCHANGED load_result
    /\ UNCHANGED <<beside_loading, load_inputs, walked, proj, lock_file, lock,
                   registered, queried, node_data, resolves, writes>>

\* build with a lock of the same digest: every node that needs resolution
\* gets the data the lock has for its address (MalformedLock if it has none),
\* then the plugins, caches, farms and transforms are added to the Context.
ReuseLock ==
    /\ load_pc = "reuse"
    /\ LET content == lock_file.lock.content
           need == DOMAIN proj.need_resolution IN
          IF need \subseteq DOMAIN content
             THEN /\ node_data' = [a \in need |-> content[a]]
                  /\ load_result' = "Ok"
             ELSE /\ load_result' = "MalformedLock"
                  /\ UNCHANGED node_data
    /\ load_pc' = "returned"
    /\ UNCHANGED <<beside_loading, load_inputs, walked, proj, lock_file, lock,
                   registered, queried, resolves, writes>>

\* build without a usable lock: plugins and caches are added, then every
\* vendor is registered (ctx.add_vendor, resolver.add_vendor).
RegisterVendors ==
    /\ load_pc = "vendors"
    /\ registered' = DOMAIN proj.vendors
    /\ load_pc' = "db"
    /\ UNCHANGED <<beside_loading, load_inputs, walked, proj, lock_file, lock,
                   queried, node_data, resolves, writes, load_result>>

\* Dependency::from_node and resolver.build_db for every node that needs
\* resolution: build_db asks every registered vendor for its options.
BuildDb ==
    /\ load_pc = "db"
    /\ queried' = IF proj.need_resolution = <<>> THEN {} ELSE registered
    /\ load_pc' = "resolve"
    /\ UNCHANGED <<beside_loading, load_inputs, walked, proj, lock_file, lock,
                   registered, node_data, resolves, writes, load_result>>

\* where build goes after resolver.resolve(..)?
after_resolve_always_write(ok) == "open"
after_resolve(ok) == IF ok THEN "open" ELSE "returned"

\* resolver.resolve(need_resolution): an error (no vendor has the wanted
\* name, or the requirements cannot be solved), or one version of the wanted
\* name for every address. With the solution the new Lock is made, the nodes
\* get their data, and the farms and transforms are added to the Context.
Resolve ==
    /\ load_pc = "resolve"
    /\ resolves' = resolves + 1
    /\ LET need == DOMAIN proj.need_resolution IN
       \E ok \in BOOLEAN, v \in Pins :
          /\ ok => (need = {} \/ registered # {})
          /\ ~ok => need # {}
          /\ IF ok
                THEN /\ lock' = [digest |->
                                    calculate_digest(proj.need_resolution),
                                 content |-> [a \in need |-> v]]
                     /\ node_data' = [a \in need |-> v]
                     /\ UNCHANGED load_result
                ELSE /\ load_result' = "Resolution"
                     /\ UNCHANGED <<lock, node_data>>
          /\ load_pc' = after_resolve(ok)
    /\ UNCHANGED <<beside_loading, load_inputs, walked, proj, lock_file,
                   registered, queried, writes>>

\* OpenOptions::new().create(true).write(true).truncate(true).open(..)
OpenLock ==
    /\ load_pc = "open"
    /\ lock_file' = File("empty", NoLock)
    /\ writes' = writes + 1
    /\ load_pc' = "write"
    /\ UNCHANGED <<beside_loading, load_inputs, walked, proj, lock,
                   registered, queried, node_data, resolves, load_result>>

\* serde_json::to_writer_pretty(&mut file, &lock): the serialiser writes the
\* Lock to the file piece by piece.
WriteLock ==
    /\ load_pc = "write"
    /\ IF lock_file.state = "empty"
          THEN /\ lock_file' = File("partial", NoLock)
               /\ UNCHANGED <<load_pc, load_result>>
          ELSE /\ lock_file' = File("complete", lock)
               /\ load_pc' = "returned"
               /\ load_result' = "Ok"
    /\ UNCHANGED <<beside_loading, load_inputs, walked, proj, lock,
                   registered, queried, node_data, resolves, writes>>

\* Context::load_project(locked), which the commands call after
\* Context::init: it loads the project with error_on_lock = locked.
load_project(locked) == locked

\* the maps need_resolution can be
NeedMaps == {[a \in A |-> Unresolved] : A \in SUBSET WantAddrs}
\* edo.lock.json before a load: absent, or written by an earlier load of the
\* project as it then was
StartFiles ==
    {Absent} \cup
    {File("complete", [digest |-> calculate_digest(nr),
                       content |-> [a \in DOMAIN nr |-> 1]]) : nr \in NeedMaps}

\* Project::load is called, by Context::init or by the update command.
LoadInit ==
    /\ SchedulerIdle
    /\ NoExecution
    /\ NoBackend
    /\ NoSync
    /\ NoResolving
    /\ NoPluginHost
    /\ NoMedia
    /\ NoFurther
    /\ declared \in DeclLists
    /\ entry \in {"load", "update"}
    /\ error_on_lock \in IF entry = "update" THEN {load_project(FALSE)}
                                             ELSE BOOLEAN
    /\ load_pc = "walk"
    /\ walked = 0
    /\ proj = EmptyProject
    /\ lock_file \in StartFiles
    /\ lock_at_start = lock_file
    /\ lock = NoLock
    /\ registered = {}
    /\ queried = {}
    /\ node_data = <<>>
    /\ resolves = 0
    /\ writes = 0
    /\ load_result = "none"

LoadNext ==
    \/ LoadBlock \/ CheckLock \/ ReuseLock
    \/ RegisterVendors \/ BuildDb \/ Resolve
    \/ OpenLock \/ WriteLock

LoadSpec == LoadInit /\ [][LoadNext]_vars

\* the declaration of the project files that are at an address
at(addr) == {i \in 1..Len(declared) : <<declared[i].name>> = addr}

\* C22: a project in which two declarations are at the same address does not
\* load: once walk has loaded the declarations, the load has failed if two
\* of them share an address (so that none replaces another).
C22_SameAddressIsLoadError ==
    (load_pc # "walk" /\ \E a \in Addrs : Cardinality(at(a)) > 1)
       => load_pc = "returned" /\ load_result \notin {"none", "Ok"}

\* C23: edo.lock.json always holds the complete lock it had before the load
\* or the complete new lock, never an empty or a partial one.
C23_LockfileNeverPartial ==
    \/ lock_file = lock_at_start
    \/ lock_file = File("complete", lock)

\* C24: if the resolution fails, edo.lock.json is not written: it is as it
\* was before the load (absent, or with its previous content).
C24_FailedResolutionKeepsLock ==
    load_result = "Resolution" => lock_file = lock_at_start /\ writes = 0

C24_Witness ==
    /\ load_pc = "returned" /\ load_result = "Resolution"
    /\ lock_at_start.state = "complete"
    /\ resolves = 1

\* a lock file exists whose digest is the digest of the project's unresolved
\* declarations
LockMatches ==
    /\ lock_at_start.state = "complete"
    /\ lock_at_start.lock.digest = calculate_digest(proj.need_resolution)

C26_UpdateRegeneratesLock ==
    (entry = "update" /\ load_pc = "returned" /\ load_result = "Ok") =>
       /\ resolves = 1
       /\ writes = 1
       /\ lock_file = File("complete", lock)

-----------------------------------------------------------------------------
(* The Resolver: build_db fills its database from the vendor, resolve      *)
(* turns the dependencies into requirements and has the solver (resolvo)   *)
(* solve them with the Resolver as its DependencyProvider. One vendor is   *)
(* registered. The solver decides a requirement by taking the first of its *)
(* candidates, in the order sort_candidates gives them, that it has not    *)
(* excluded, and goes back to the next one on a conflict.                  *)

\* semver::VersionReq: any version, or exactly one
Reqs == {[op |-> "*", version |-> 1]} \cup
        {[op |-> "=", version |-> v] : v \in Versions}
\* EdoVersion::matches
matches(v, req) == req.op = "*" \/ v = req.version

\* Option<HashMap<String, VersionReq>> of a candidate of p: no dependency, or
\* one on the other package
DepMaps(p) == {<<>>} \cup
              {[n \in {q} |-> r] : q \in Pkgs \ {p}, r \in Reqs}

\* Dependency {name, version}; the address is its place in the list.
Dependencies == [name : Pkgs, version : Reqs]

\* builder.rs: `resolver.build_db(dep.name.as_str())` for every dependency:
\* the name is interned and its versions are what the vendor offers.
ResolverBuildDb ==
    /\ resolve_pc = "build_db"
    /\ name_to_vs' = [n \in {requires[i].name : i \in DOMAIN requires} |->
                        vendor_options[n]]
    /\ resolve_pc' = "resolve"
    /\ UNCHANGED <<beside_resolving, vendor_options, vendor_dependencies,
                   requires, found, resolve_result>>

\* the versions of a known name that match a requirement
matching_versions(n, req) == {v \in name_to_vs[n] : matches(v, req)}

\* Resolver::build_requirement: the version set of the matching versions;
\* no matching version is error::Requirement (allowed = {} here).
build_requirement(dep) ==
    [name |-> dep.name, allowed |-> matching_versions(dep.name, dep.version)]

\* DependencyProvider::get_dependencies: Unknown when a dependency's name is
\* not known to the pool; otherwise one requirement for every dependency
\* that has a matching version, and none for one that has no matching version.
get_dependencies(p, v) ==
    LET deps == vendor_dependencies[p][v] IN
       IF \E n \in DOMAIN deps : n \notin DOMAIN name_to_vs
          THEN [unknown |-> TRUE, requirements |-> <<>>]
          ELSE LET kept == {n \in DOMAIN deps :
                               matching_versions(n, deps[n]) # {}}
               IN [unknown |-> FALSE,
                   requirements |->
                      IF kept = {} THEN <<>>
                      ELSE LET n == CHOOSE x \in kept : TRUE
                           IN <<[name |-> n,
                                 allowed |-> matching_versions(n, deps[n])]>>]

\* DependencyProvider::sort_candidates: `left.version().cmp(&right.version())`
RECURSIVE sort_candidates(_)
sort_candidates(S) ==
    IF S = {} THEN <<>>
    ELSE LET least == CHOOSE v \in S : \A w \in S : v <= w
         IN <<least>> \o sort_candidates(S \ {least})

Unsolvable == [ok |-> FALSE, chosen |-> <<>>]

\* solver.solve: the requirements still to satisfy are taken one by one; a
\* requirement on a decided name holds or is a conflict; for another one the
\* candidates are tried in sorted order, a candidate with Unknown
\* dependencies being excluded.
RECURSIVE solve(_, _), try(_, _, _, _)
solve(chosen, pending) ==
    IF pending = <<>> THEN [ok |-> TRUE, chosen |-> chosen]
    ELSE LET r == Head(pending) IN
         IF r.name \in DOMAIN chosen
            THEN IF chosen[r.name] \in r.allowed
                    THEN solve(chosen, Tail(pending))
                    ELSE Unsolvable
            ELSE try(chosen, r.name, sort_candidates(r.allowed), Tail(pending))
try(chosen, n, candidates, pending) ==
    IF candidates = <<>> THEN Unsolvable
    ELSE LET c == Head(candidates)
             d == get_dependencies(n, c)
             s == solve(Put(chosen, n, c), pending \o d.requirements)
         IN IF ~d.unknown /\ s.ok THEN s
            ELSE try(chosen, n, Tail(candidates), pending)

\* Resolver::resolve
ResolverResolve ==
    /\ resolve_pc = "resolve"
    /\ LET requirements == [i \in DOMAIN requires |->
                               build_requirement(requires[i])]
           resolution == solve(<<>>, requirements) IN
          IF \E i \in DOMAIN requires : requirements[i].allowed = {}
             THEN resolve_result' = "Requirement" /\ UNCHANGED found
          ELSE IF ~resolution.ok
             THEN resolve_result' = "Resolution" /\ UNCHANGED found
             ELSE /\ resolve_result' = "Ok"
                  /\ found' = [i \in DOMAIN requires |->
                                 [name |-> requires[i].name,
                                  version |->
                                     resolution.chosen[requires[i].name]]]
    /\ resolve_pc' = "returned"
    /\ UNCHANGED <<beside_resolving, vendor_options, vendor_dependencies,
                   requires, name_to_vs>>

\* A vendor, and the dependencies of a project that need resolution.
ResolverInit ==
    /\ SchedulerIdle
    /\ NoExecution
    /\ NoBackend
    /\ NoSync
    /\ NoLoading
    /\ NoPluginHost
    /\ NoMedia
    /\ NoFurther
    /\ vendor_options \in [Pkgs -> SUBSET Versions]
    /\ vendor_dependencies \in
          {f \in [Pkgs -> [Versions -> UNION {DepMaps(p) : p \in Pkgs}]] :
              \A p \in Pkgs, v \in Versions :
                 /\ f[p][v] \in DepMaps(p)
                 /\ v \notin vendor_options[p] => f[p][v] = <<>>}
    /\ requires \in SeqsUpTo(Dependencies, MaxRequires)
    /\ name_to_vs = <<>>
    /\ resolve_pc = "build_db"
    /\ found = <<>>
    /\ resolve_result = "none"

ResolverNext == ResolverBuildDb \/ ResolverResolve

ResolverSpec == ResolverInit /\ [][ResolverNext]_vars

\* the version the resolution chose for a name
selected == [n \in {found[i].name : i \in DOMAIN found} |->
               found[CHOOSE i \in DOMAIN found : found[i].name = n].version]

\* A selection satisfies all constraints: every requirement given to resolve,
\* and every dependency the vendor reports for a selected candidate.
dependencies_hold(sel) ==
    \A n \in DOMAIN sel :
       \A q \in DOMAIN vendor_dependencies[n][sel[n]] :
          /\ q \in DOMAIN sel
          /\ matches(sel[q], vendor_dependencies[n][sel[n]][q])
satisfies(sel) ==
    /\ \A i \in DOMAIN requires :
          matches(sel[requires[i].name], requires[i].version)
    /\ dependencies_hold(sel)

\* C27: when a resolution succeeds, the version chosen for a requirement is
\* at least every other version that satisfies the requirement and could be
\* selected instead with all constraints still satisfied.
C27_MaximumSatisfyingVersion ==
    resolve_result = "Ok" =>
       \A i \in DOMAIN requires :
          LET n == requires[i].name IN
             \A v \in vendor_options[n] :
                (/\ matches(v, requires[i].version)
                 /\ satisfies([selected EXCEPT ![n] = v]))
                   => selected[n] >= v

\* C28: when a resolution succeeds, every dependency the vendor reports for a
\* chosen candidate is enforced: a candidate of that name with a matching
\* version is part of the solution.
C28_TransitiveDependenciesEnforced ==
    resolve_result = "Ok" => dependencies_hold(selected)

-----------------------------------------------------------------------------
\* The host functions a guest plugin calls (plugin::Host).  Every fallible
\* host function runs a host-side operation and passes its result through
\* wasm_ok!, which turns an error into a GuestError resource.

\* host functions that return the value of wasm_ok! to the guest
Marshalled ==
    {"Storage.open", "Storage.save", "Source.fetch", "Transform.depends",
     "Environment.run"}

\* host functions that drop the value of wasm_ok! and return Ok(Ok(()))
Discarded ==
    {"Transform.prepare", "Transform.stage", "Source.stage",
     "Environment.write", "Environment.unpack"}

\* host functions that end the call with `?`, without wasm_ok!
Trapping == {"Transform.environment", "Source.new"}

HostOps == Marshalled \cup Discarded \cup Trapping

\* the texts of the errors a host-side operation fails with
Messages == {"io", "not found"}

Succeeded == [status |-> "Ok", message |-> ""]

Outcomes ==
    {Succeeded} \cup {[status |-> "Err", message |-> m] : m \in Messages}

\* wasm_ok!: Ok(data) stays Ok(data); Err(e) pushes
\* GuestError {plugin: "host", message: e.to_string()} to the table and is
\* Err of that resource.
wasm_ok(table, outcome) ==
    IF outcome.status = "Ok"
    THEN [table |-> table, status |-> "Ok", error |-> NoError]
    ELSE LET e == [plugin |-> "host", message |-> outcome.message]
         IN [table |-> Append(table, e), status |-> "Err", error |-> e]

\* What a host function hands to the guest of the value r of wasm_ok!.
returned(op, r) ==
    IF op \in Discarded
    THEN [status |-> "Ok", error |-> NoError]
    ELSE [status |-> r.status, error |-> r.error]

\* The guest calls a host function.
GuestCall(op) ==
    /\ host_pc = "guest"
    /\ host_calls < MaxCalls
    /\ host_pc' = "host"
    /\ host_op' = op
    /\ host_calls' = host_calls + 1
    /\ host_outcome' = NotRun
    /\ guest_result' = "none"
    /\ guest_error' = NoError
    /\ UNCHANGED <<beside_plugin_host, host_table>>

\* The host-side operation of the call runs, and succeeds or fails.
HostOperation ==
    /\ host_pc = "host"
    /\ host_outcome = NotRun
    /\ host_outcome' \in Outcomes
    /\ UNCHANGED <<beside_plugin_host, host_pc, host_op, guest_result,
                   guest_error, host_table, host_calls>>

\* A host function with wasm_ok! returns to the guest.
HostReturn ==
    /\ host_pc = "host"
    /\ host_outcome \in Outcomes
    /\ host_op \notin Trapping
    /\ LET r == wasm_ok(host_table, host_outcome)
           g == returned(host_op, r)
       IN /\ host_table' = r.table
          /\ guest_result' = g.status
          /\ guest_error' = g.error
    /\ host_pc' = "guest"
    /\ UNCHANGED <<beside_plugin_host, host_op, host_outcome, host_calls>>

\* A host function that applies `?` to its operation returns its value, or
\* ends the guest with a trap.
HostTrap ==
    /\ host_pc = "host"
    /\ host_outcome \in Outcomes
    /\ host_op \in Trapping
    /\ IF host_outcome.status = "Ok"
       THEN /\ guest_result' = "Ok"
            /\ host_pc' = "guest"
       ELSE /\ guest_result' = "Trap"
            /\ host_pc' = "trapped"
    /\ UNCHANGED <<beside_plugin_host, host_op, host_outcome, guest_error,
                   host_table, host_calls>>

HostInit ==
    /\ SchedulerIdle
    /\ NoExecution
    /\ NoBackend
    /\ NoSync
    /\ NoLoading
    /\ NoResolving
    /\ NoMedia
    /\ NoFurther
    /\ host_pc = "guest"
    /\ host_op = "none"
    /\ host_outcome = NotRun
    /\ guest_result = "none"
    /\ guest_error = NoError
    /\ host_table = <<>>
    /\ host_calls = 0

HostNext ==
    \/ \E op \in HostOps : GuestCall(op)
    \/ HostOperation
    \/ HostReturn
    \/ HostTrap

HostSpec == HostInit /\ [][HostNext]_vars

\* C29: whenever the host-side operation of a call has failed, the call has
\* returned to the guest an error result that carries
\* GuestError {plugin, message} of that failure; it is never a success.
C29_HostFailureMarshalled ==
    (host_pc \in {"guest", "trapped"} /\ host_outcome \in Outcomes
        /\ host_outcome.status = "Err")
    => /\ guest_result = "Err"
       /\ guest_error = [plugin |-> "host", message |-> host_outcome.message]

-----------------------------------------------------------------------------
\* MediaType and its text (storage/artifact.rs).  A text is the sequence of
\* its characters, so that formatting and parsing work on the characters as
\* Display, the regular expressions of Compression::detect and FromStr do.

Compressions == {"Zstd", "Gzip", "Bzip2", "Lz", "Xz", "None"}

\* the kinds with a fixed name, and the name Display writes for each
KindName ==
    [Manifest |-> <<"m", "a", "n", "i", "f", "e", "s", "t">>, File |-> <<"f", "i", "l", "e">>, Tar |-> <<"t", "a", "r">>,
     Zip |-> <<"z", "i", "p">>, Oci |-> <<"o", "c", "i">>, Image |-> <<"i", "m", "a", "g", "e">>]

BuiltIn == DOMAIN KindName

\* the characters the name of a custom kind is made of
Alphabet == {"a", "t", "r", ".", "+", "g", "z", "x"}

CustomNames == SeqsUpTo(Alphabet, MaxNameLen)

\* every value of the enum MediaType
MediaTypes ==
    {[kind |-> "Manifest", name |-> <<>>, compression |-> "None"]}
    \cup {[kind |-> k, name |-> <<>>, compression |-> c] :
            k \in BuiltIn \ {"Manifest"}, c \in Compressions}
    \cup {[kind |-> "Custom", name |-> n, compression |-> c] :
            n \in CustomNames, c \in Compressions}

\* the results of from_str that are errors
InvalidMediaType ==
    [kind |-> "InvalidMediaType", name |-> <<>>, compression |-> "None"]
SchemaError == [kind |-> "Schema", name |-> <<>>, compression |-> "None"]

ARTIFACT_SCHEMA_VERSION == <<"v", "1">>

\* "vnd.edo.artifact"
ArtifactPrefix == <<"v", "n", "d", ".", "e", "d", "o", ".", "a", "r", "t", "i", "f", "a", "c", "t">>

\* Display of Compression
compression_text ==
    [Zstd |-> <<".", "z", "s", "t">>, Gzip |-> <<".", "g", "z">>, Bzip2 |-> <<".", "b", "z", "2">>, Lz |-> <<".", "l", "z", "4">>,
     Xz |-> <<".", "x", "z">>, None |-> <<>>]

\* the words the regular expression of each compression ends with, after
\* one character of [\.\+]
Endings ==
    [Zstd |-> {<<"z", "s", "t">>},
     Gzip |-> {<<"g", "z">>, <<"g", "z", "i", "p", "2">>, <<"g", "z", "i", "p">>},
     Bzip2 |-> {<<"b", "z", "2">>, <<"b", "z", "i", "p", "2">>, <<"b", "z", "i", "p">>},
     Lz |-> {<<"l", "z", "4">>, <<"l", "z", "m", "a">>},
     Xz |-> {<<"x", "z">>}]

starts_with(s, t) == Len(s) >= Len(t) /\ SubSeq(s, 1, Len(t)) = t

ends_with(s, t) ==
    Len(s) >= Len(t) /\ SubSeq(s, Len(s) - Len(t) + 1, Len(s)) = t

strip_prefix(s, t) == SubSeq(s, Len(t) + 1, Len(s))

\* the lengths of the ends of the input that the pattern of c matches
match_lengths(input, c) ==
    {Len(w) + 1 : w \in {e \in Endings[c] :
        \E sep \in {".", "+"} : ends_with(input, <<sep>> \o e)}}

is_match(input, c) == match_lengths(input, c) # {}

\* split_by: the input before the leftmost match of the pattern of c
split_by(input, c) ==
    LET lens == match_lengths(input, c)
        longest == CHOOSE l \in lens : \A m \in lens : m <= l
    IN IF lens = {} THEN input
       ELSE SubSeq(input, 1, Len(input) - longest)

\* Compression::detect: the patterns are tried in this order.
detect(input) ==
    IF is_match(input, "Zstd")
    THEN [string |-> split_by(input, "Zstd"), compression |-> "Zstd"]
    ELSE IF is_match(input, "Gzip")
    THEN [string |-> split_by(input, "Gzip"), compression |-> "Gzip"]
    ELSE IF is_match(input, "Bzip2")
    THEN [string |-> split_by(input, "Bzip2"), compression |-> "Bzip2"]
    ELSE IF is_match(input, "Lz")
    THEN [string |-> split_by(input, "Lz"), compression |-> "Lz"]
    ELSE IF is_match(input, "Xz")
    THEN [string |-> split_by(input, "Xz"), compression |-> "Xz"]
    ELSE [string |-> input, compression |-> "None"]

\* Display of MediaType
to_string(x) ==
    LET head == ArtifactPrefix \o <<".">> \o ARTIFACT_SCHEMA_VERSION \o <<".">>
    IN IF x.kind = "Manifest" THEN head \o KindName["Manifest"]
       ELSE IF x.kind = "Custom"
       THEN head \o x.name \o compression_text[x.compression]
       ELSE head \o KindName[x.kind] \o compression_text[x.compression]

\* FromStr of MediaType
from_str(s) ==
    LET d == detect(s)
        schema_version == <<".">> \o ARTIFACT_SCHEMA_VERSION \o <<".">>
    IN IF ~starts_with(d.string, ArtifactPrefix) THEN InvalidMediaType
       ELSE LET string == strip_prefix(d.string, ArtifactPrefix) IN
            IF ~starts_with(string, schema_version) THEN SchemaError
            ELSE LET value == strip_prefix(string, schema_version) IN
                 IF value = KindName["Manifest"]
                 THEN [kind |-> "Manifest", name |-> <<>>,
                       compression |-> "None"]
                 ELSE IF \E k \in BuiltIn : KindName[k] = value
                 THEN [kind |-> CHOOSE k \in BuiltIn : KindName[k] = value,
                       name |-> <<>>, compression |-> d.compression]
                 ELSE [kind |-> "Custom", name |-> value,
                       compression |-> d.compression]

\* x.to_string()
Format ==
    /\ media_pc = "format"
    /\ text' = to_string(media_type)
    /\ media_pc' = "parse"
    /\ UNCHANGED <<beside_media, media_type, parsed>>

\* MediaType::from_str of the text
Parse ==
    /\ media_pc = "parse"
    /\ parsed' = from_str(text)
    /\ media_pc' = "done"
    /\ UNCHANGED <<beside_media, media_type, text>>

MediaInit ==
    /\ SchedulerIdle
    /\ NoExecution
    /\ NoBackend
    /\ NoSync
    /\ NoLoading
    /\ NoResolving
    /\ NoPluginHost
    /\ NoFurther
    /\ media_pc = "format"
    /\ media_type \in MediaTypes
    /\ text = <<>>
    /\ parsed = NoMediaType

MediaNext == Format \/ Parse

MediaSpec == MediaInit /\ [][MediaNext]_vars

\* C30: for every media type x, of every kind (custom kinds included) and
\* every compression, parsing the text of x gives x again.
C30_ParseOfFormatIsIdentity ==
    media_pc = "done" => parsed = media_type

-----------------------------------------------------------------------------
\* SyncReader (util/sync.rs): read_sync polls the wrapped AsyncRead source
\* with one ReadBuf over the caller's buffer until the poll is Ready.

Bytes == 1..2

Data == SeqsUpTo(Bytes, MaxData)

remaining(src) == Len(src.data) - src.pos

\* ReadBuf::new(buf): nothing of the buffer is filled
new_readbuf(len) == [buf |-> [i \in 1..len |-> 0], filled |-> 0]

\* the numbers of bytes a poll of the source can put in the ReadBuf: a
\* source that is ready gives all that fits, another one gives some of it;
\* no byte at the end of the source or when nothing fits
amounts(src, rb) ==
    LET most == Min(Len(rb.buf) - rb.filled, remaining(src))
    IN IF most = 0 THEN {0}
       ELSE IF src.ready THEN {most}
       ELSE 1..most

\* poll_read returning Poll::Ready(Ok(())) with k bytes: the bytes at the
\* position of the source are put after the filled part of the ReadBuf
put(rb, src, k) ==
    [buf |-> [i \in 1..Len(rb.buf) |->
                IF i > rb.filled /\ i <= rb.filled + k
                THEN src.data[src.pos + i - rb.filled]
                ELSE rb.buf[i]],
     filled |-> rb.filled + k]

\* Poll::Ready(Ok(_)) => return Ok(readbuf.filled().len())
read_sync_return_capacity(rb) == Len(rb.buf)
read_sync_return(rb) == rb.filled

\* A caller calls read (read_sync) with a buffer of len bytes.
ReadSync(len) ==
    /\ rd_pc = "idle"
    /\ rd_reads < MaxReads
    /\ readbuf' = new_readbuf(len)
    /\ rd_before' = remaining(rd_source)
    /\ rd_reads' = rd_reads + 1
    /\ rd_pc' = "poll"
    /\ UNCHANGED <<program, beside_reader, rd_source, rd_n, rd_out, rd_pended>>

\* Poll::Pending => continue
PollPending ==
    /\ rd_pc = "poll"
    /\ ~rd_source.ready
    /\ remaining(rd_source) > 0
    /\ rd_pended' = TRUE
    /\ UNCHANGED <<program, beside_reader, rd_pc, rd_source, readbuf, rd_n, rd_before,
                   rd_out, rd_reads>>

\* Poll::Ready(Ok(_)): read_sync returns, and the caller takes the bytes
\* buf[..n] of its buffer.
PollReady ==
    /\ rd_pc = "poll"
    /\ \E k \in amounts(rd_source, readbuf) :
        LET rb == put(readbuf, rd_source, k)
            n == read_sync_return(rb)
        IN /\ readbuf' = rb
           /\ rd_source' = [rd_source EXCEPT !.pos = @ + k]
           /\ rd_n' = n
           /\ rd_out' = rd_out \o SubSeq(rb.buf, 1, n)
    /\ rd_pc' = "idle"
    /\ UNCHANGED <<program, beside_reader, rd_before, rd_reads, rd_pended>>

ReaderInit ==
    /\ SchedulerIdle
    /\ NoExecution
    /\ NoBackend
    /\ NoSync
    /\ NoLoading
    /\ NoResolving
    /\ NoPluginHost
    /\ NoMedia
    /\ NoIdent
    /\ NoS3
    /\ NoDirectory
    /\ rd_pc = "idle"
    /\ rd_source \in [data : Data, pos : {0}, ready : BOOLEAN]
    /\ readbuf = [buf |-> <<>>, filled |-> 0]
    /\ rd_n = 0
    /\ rd_before = 0
    /\ rd_out = <<>>
    /\ rd_reads = 0
    /\ rd_pended = FALSE

ReaderNext ==
    \/ \E len \in 0..MaxBuf : ReadSync(len)
    \/ PollPending
    \/ PollReady

ReaderSpec == ReaderInit /\ [][ReaderNext]_vars

\* C31: the bytes read through a SyncReader are the bytes of the source up
\* to its position, in order; a read on a source that is ready returns
\* min(buffer length, bytes remaining); and once a read into a buffer that
\* is not empty returns 0, the whole input has been delivered.
C31_SyncReaderDeliversSource ==
    /\ rd_out = SubSeq(rd_source.data, 1, rd_source.pos)
    /\ (rd_pc = "idle" /\ rd_reads > 0 /\ rd_source.ready)
        => rd_n = Min(Len(readbuf.buf), rd_before)
    /\ (rd_pc = "idle" /\ rd_reads > 0 /\ rd_n = 0 /\ Len(readbuf.buf) > 0)
        => rd_out = rd_source.data

\* A source of MaxData bytes has been read to its end through buffers
\* shorter than it, the last read being a partial one.
C31_Witness ==
    /\ rd_pc = "idle"
    /\ Len(rd_source.data) = MaxData
    /\ rd_out = rd_source.data
    /\ rd_n > 0
    /\ rd_n < Len(readbuf.buf)
    /\ rd_reads > 1

-----------------------------------------------------------------------------
\* Id and its string form (storage/id.rs).  A text is the sequence of its
\* characters; a semver Version is <<major, minor, patch>>.

UNSUPPORTED_CHARS == {"@", ":", ".", "-", "/"}
UNSUPPORTED_PREFIX == <<<<"h", "t", "t", "p", ":", "/", "/">>, <<"h", "t", "t", "p", "s", ":", "/", "/">>>>

contains(s, c) == \E i \in DOMAIN s : s[i] = c

\* str::split_once: the parts before and after the first c
split_once(s, c) ==
    LET i == CHOOSE k \in DOMAIN s : s[k] = c /\ \A j \in 1..(k - 1) : s[j] # c
    IN <<SubSeq(s, 1, i - 1), SubSeq(s, i + 1, Len(s))>>

\* str::split: the parts between the occurrences of c
RECURSIVE split(_, _)
split(s, c) ==
    IF ~contains(s, c) THEN <<s>>
    ELSE <<split_once(s, c)[1]>> \o split(split_once(s, c)[2], c)

RECURSIVE trim_start_matches(_, _)
trim_start_matches(s, c) ==
    IF s # <<>> /\ Head(s) = c THEN trim_start_matches(Tail(s), c) ELSE s

\* Name::parse: the prefixes are stripped, every unsupported character
\* becomes '_', and the '_' at the start are dropped
Name_parse(value) ==
    LET strip(v, pat) ==
            IF Len(v) >= Len(pat) /\ SubSeq(v, 1, Len(pat)) = pat
            THEN SubSeq(v, Len(pat) + 1, Len(v)) ELSE v
        stripped == strip(strip(value, UNSUPPORTED_PREFIX[1]),
                          UNSUPPORTED_PREFIX[2])
        replaced == [i \in DOMAIN stripped |->
                        IF stripped[i] \in UNSUPPORTED_CHARS THEN "_"
                        ELSE stripped[i]]
    IN trim_start_matches(replaced, "_")

DigitChars == <<"0", "1", "2">>

\* Display of semver::Version
version_text(v) ==
    <<DigitChars[v[1] + 1], ".", DigitChars[v[2] + 1], ".",
      DigitChars[v[3] + 1]>>

\* the number a text of one digit stands for
digit(t) == (CHOOSE d \in DOMAIN DigitChars : <<DigitChars[d]>> = t) - 1

is_digit(t) == \E d \in DOMAIN DigitChars : <<DigitChars[d]>> = t

\* Version::parse accepts major.minor.patch
is_version(t) ==
    LET parts == split(t, ".")
    IN Len(parts) = 3 /\ \A i \in 1..3 : is_digit(parts[i])

Version_parse(t) ==
    LET parts == split(t, ".")
    IN <<digit(parts[1]), digit(parts[2]), digit(parts[3])>>

\* Display of Id: [package+]name[-version][.arch]-digest
id_to_string(id) ==
    (IF id.package.some THEN id.package.val \o <<"+">> ELSE <<>>)
    \o id.name
    \o (IF id.version.some THEN <<"-">> \o version_text(id.version.val)
        ELSE <<>>)
    \o (IF id.arch.some THEN <<".">> \o id.arch.val ELSE <<>>)
    \o <<"-">> \o id.digest

IdOk(id) == [kind |-> "Ok", id |-> id]
IdFailed(e) == [kind |-> e, id |-> NoIdValue]

\* FromStr of Id
id_from_str(s) ==
    LET package == IF contains(s, "+")
                   THEN Some(Name_parse(split_once(s, "+")[1])) ELSE None
        rest == IF contains(s, "+") THEN split_once(s, "+")[2] ELSE s
        segments == split(rest, "-")
    IN IF Len(segments) = 2
       THEN LET dotted == contains(segments[1], ".")
                name == IF dotted THEN split_once(segments[1], ".")[1]
                        ELSE segments[1]
                arch == IF dotted THEN Some(split_once(segments[1], ".")[2])
                        ELSE None
            IN IdOk([package |-> package, name |-> Name_parse(name),
                     version |-> None, arch |-> arch,
                     digest |-> segments[2]])
       ELSE IF Len(segments) = 3
       THEN LET from == segments[1] IN
            IF contains(segments[2], ".") /\ ~contains(from, ".")
            THEN IdFailed("Panic")
            ELSE LET dotted == contains(segments[2], ".")
                     version == IF dotted THEN split_once(from, ".")[1]
                                ELSE from
                     arch == IF dotted THEN Some(split_once(from, ".")[2])
                             ELSE None
                 IN IF ~is_version(version) THEN IdFailed("Semver")
                    ELSE IdOk([package |-> package,
                               name |-> Name_parse(segments[1]),
                               version |-> Some(Version_parse(version)),
                               arch |-> arch,
                               digest |-> segments[2]])
       ELSE IdFailed("Id")

\* the names, versions, architectures and digests of the ids
IdNames == {<<>>, <<"a">>, <<"a", "_">>, <<"a", "a">>}
IdVersions == {<<1, 0, 0>>, <<0, 1, 2>>}
IdArchs == {<<"x">>}
IdDigests == {<<"d">>, <<"e">>}
IdPackages == {<<"p">>}

Option(S) == {None} \cup {Some(v) : v \in S}

IdValues ==
    [package : Option(IdPackages), name : IdNames,
     version : Option(IdVersions), arch : Option(IdArchs),
     digest : IdDigests]

\* id.to_string(), as the catalog writes its keys
IdFormat ==
    /\ id_pc = "format"
    /\ id_text' = id_to_string(id_value)
    /\ id_pc' = "parse"
    /\ UNCHANGED <<program, beside_ident, id_value, id_parsed>>

\* Id::from_str of the text, as the catalog reads its keys
IdParse ==
    /\ id_pc = "parse"
    /\ id_parsed' = id_from_str(id_text)
    /\ id_pc' = "done"
    /\ UNCHANGED <<program, beside_ident, id_value, id_text>>

IdInit ==
    /\ SchedulerIdle
    /\ NoExecution
    /\ NoBackend
    /\ NoSync
    /\ NoLoading
    /\ NoResolving
    /\ NoPluginHost
    /\ NoMedia
    /\ NoReader
    /\ NoS3
    /\ NoDirectory
    /\ id_pc = "format"
    /\ id_value \in IdValues
    /\ id_text = <<>>
    /\ id_parsed = [kind |-> "none", id |-> NoIdValue]

IdNext == IdFormat \/ IdParse

IdSpec == IdInit /\ [][IdNext]_vars

\* C38: for every Id, with or without package, version and arch, parsing
\* its string form gives an equal Id.
C38_IdRoundTrip ==
    id_pc = "done" => id_parsed = IdOk(id_value)

-----------------------------------------------------------------------------
\* Concurrent writers of one S3 backend: save and del load the catalog,
\* change their copy and flush it; flush waits for the lock object to be
\* absent, puts it, puts the catalog and deletes the lock object.

\* the artifact writer w saves or deletes
WriterArtifact(w) == [id |-> [name |-> "a", digest |-> w], layers |-> <<>>]

RECURSIVE stored(_)
\* the catalog in which the artifacts of the writers of S are stored
stored(S) ==
    IF S = {} THEN EmptyCatalog
    ELSE LET w == CHOOSE x \in S : \A y \in S : x <= y
         IN Catalog_add(stored(S \ {w}), WriterArtifact(w))

step(w, r) == wr' = [wr EXCEPT ![w] = r]

\* S3Backend::save is called: `let mut catalog = self.load().await?;
\* catalog.add(artifact);`
S3Save(w) ==
    /\ wr[w].pc = "idle"
    /\ wr[w].op = "none"
    /\ step(w, [wr[w] EXCEPT !.op = "save", !.pc = "wait", !.attempts = 1,
                             !.cat = Catalog_add(s3_catalog,
                                                 WriterArtifact(w))])
    /\ UNCHANGED <<program, beside_s3, s3_catalog, s3_lock>>

\* S3Backend::del is called: `if !self.has(id).await? { return Ok(()); }`
S3DelHas(w) ==
    /\ wr[w].pc = "idle"
    /\ wr[w].op = "none"
    /\ step(w, IF has(s3_catalog, WriterArtifact(w).id)
               THEN [wr[w] EXCEPT !.op = "del", !.pc = "load"]
               ELSE [wr[w] EXCEPT !.op = "del", !.pc = "idle", !.res = "Ok"])
    /\ UNCHANGED <<program, beside_s3, s3_catalog, s3_lock>>

\* `let mut catalog = self.load().await?; let artifact = catalog.get(id)
\* .context(NotFound)?.clone(); catalog.del(id);`
S3DelLoad(w) ==
    /\ wr[w].pc = "load"
    /\ step(w, IF has(s3_catalog, WriterArtifact(w).id)
               THEN [wr[w] EXCEPT !.pc = "wait", !.attempts = 1,
                                  !.cat = Catalog_del(s3_catalog,
                                                      WriterArtifact(w).id)]
               ELSE [wr[w] EXCEPT !.pc = "idle", !.res = "NotFound"])
    /\ UNCHANGED <<program, beside_s3, s3_catalog, s3_lock>>

\* One turn of the loop of wait_for_lock: the lock object is absent, or it
\* has been seen LOCK_ATTEMPTS times, or there is another turn.
WaitForLock(w) ==
    /\ wr[w].pc = "wait"
    /\ step(w, IF ~s3_lock \/ wr[w].attempts >= LOCK_ATTEMPTS
               THEN [wr[w] EXCEPT !.pc = "put_lock"]
               ELSE [wr[w] EXCEPT !.attempts = @ + 1])
    /\ UNCHANGED <<program, beside_s3, s3_catalog, s3_lock>>

\* flush puts the lock object; a failed put is returned.
PutLock(w) ==
    /\ wr[w].pc = "put_lock"
    /\ \E ok \in BOOLEAN :
          IF ok
          THEN s3_lock' = TRUE /\ step(w, [wr[w] EXCEPT !.pc = "put_catalog"])
          ELSE /\ s3_lock' = s3_lock
               /\ step(w, [wr[w] EXCEPT !.pc = "idle", !.res = "Put"])
    /\ UNCHANGED <<program, beside_s3, s3_catalog>>

\* flush puts the catalog; the result is kept until the lock is deleted.
PutCatalog(w) ==
    /\ wr[w].pc = "put_catalog"
    /\ \E ok \in BOOLEAN :
          IF ok
          THEN /\ s3_catalog' = wr[w].cat
               /\ step(w, [wr[w] EXCEPT !.pc = "delete_lock", !.put = "Ok"])
          ELSE /\ s3_catalog' = s3_catalog
               /\ step(w, [wr[w] EXCEPT !.pc = "delete_lock", !.put = "Put"])
    /\ UNCHANGED <<program, beside_s3, s3_lock>>

\* flush deletes the lock object and returns the result of the put; save
\* and del return it (the blobs del deletes afterwards are left out).
DeleteLock(w) ==
    /\ wr[w].pc = "delete_lock"
    /\ \E ok \in BOOLEAN :
          IF ok
          THEN /\ s3_lock' = FALSE
               /\ step(w, [wr[w] EXCEPT !.pc = "idle", !.res = wr[w].put])
          ELSE /\ s3_lock' = s3_lock
               /\ step(w, [wr[w] EXCEPT !.pc = "idle", !.res = "Delete"])
    /\ UNCHANGED <<program, beside_s3, s3_catalog>>

S3Init ==
    /\ SchedulerIdle
    /\ NoExecution
    /\ NoBackend
    /\ NoSync
    /\ NoLoading
    /\ NoResolving
    /\ NoPluginHost
    /\ NoMedia
    /\ NoReader
    /\ NoIdent
    /\ NoDirectory
    /\ s3_catalog \in {stored(S) : S \in SUBSET Writers}
    /\ s3_lock = FALSE
    /\ wr = [w \in Writers |-> [NoWriter EXCEPT !.pc = "idle"]]

S3Next ==
    \E w \in Writers :
        \/ S3Save(w)
        \/ S3DelHas(w)
        \/ S3DelLoad(w)
        \/ WaitForLock(w)
        \/ PutLock(w)
        \/ PutCatalog(w)
        \/ DeleteLock(w)

S3Spec == S3Init /\ [][S3Next]_vars

\* the writers that have put the lock object and not yet deleted it
Updating == {w \in Writers : wr[w].pc \in {"put_catalog", "delete_lock"}}

\* C39: at most one writer at a time is between putting and deleting the
\* lock object, and when the calls of all writers have returned success the
\* catalog has every saved artifact and none of the deleted ones.
C39_S3WritersLoseNoUpdate ==
    /\ Cardinality(Updating) <= 1
    /\ (\A w \in Writers : wr[w].pc = "idle" /\ wr[w].res = "Ok") =>
          \A w \in Writers :
              has(s3_catalog, WriterArtifact(w).id) <=> (wr[w].op = "save")

-----------------------------------------------------------------------------
(* The directory of a local backend: catalog.json and blobs/blake3 under   *)
(* the path of the backend, with one caller. A call fails where the file or *)
(* directory it needs is absent; other failures of the disk are left out.  *)

\* the call and its result
called(op, res) ==
    /\ last_call' = [op |-> op, res |-> res]
    /\ local_calls' = local_calls + 1

\* LocalBackend::load: no file is the default Catalog
load == IF catalog_exists THEN catalog_json ELSE EmptyCatalog

\* LocalBackend::list
list == list_all(load)

\* LocalBackend::new_ on the same path, as the next run of the program does:
\* the path and blobs/blake3 are created where absent; the Writers of the
\* run before are gone, their temporary files stay.
DirNew ==
    /\ local_calls < MaxLocalCalls
    /\ layer_dir' = TRUE
    /\ open_writers' = {}
    /\ called("new", "Ok")
    /\ UNCHANGED <<program, beside_directory, catalog_exists, catalog_json,
                   layer_blobs, layer_tmps>>

\* LocalBackend::start_layer: a new temporary file is created in blobs/blake3,
\* which has to exist.
DirStartLayer ==
    /\ local_calls < MaxLocalCalls
    /\ \E tmp_name \in Tmps \ (layer_tmps \cup open_writers) :
          IF layer_dir
          THEN /\ layer_tmps' = layer_tmps \cup {tmp_name}
               /\ open_writers' = open_writers \cup {tmp_name}
               /\ called("start_layer", "Ok")
          ELSE /\ called("start_layer", "Create")
               /\ UNCHANGED <<layer_tmps, open_writers>>
    /\ UNCHANGED <<program, beside_directory, catalog_exists, catalog_json,
                   layer_dir, layer_blobs>>

\* LocalBackend::finish_layer: the temporary file is copied to the file named
\* by the digest of what was written, then removed.
DirFinishLayer ==
    /\ local_calls < MaxLocalCalls
    /\ \E writer \in open_writers, digest \in Blobs :
          /\ open_writers' = open_writers \ {writer}
          /\ IF writer \in layer_tmps
             THEN /\ layer_blobs' = layer_blobs \cup {digest}
                  /\ layer_tmps' = layer_tmps \ {writer}
                  /\ called("finish_layer", "Ok")
             ELSE /\ called("finish_layer", "Copy")
                  /\ UNCHANGED <<layer_blobs, layer_tmps>>
    /\ UNCHANGED <<program, beside_directory, catalog_exists, catalog_json,
                   layer_dir>>

\* LocalBackend::save: every layer has its blob file, then load, add, flush.
DirSave ==
    /\ local_calls < MaxLocalCalls
    /\ \E a \in Artifacts :
          IF digests(a.layers) \subseteq layer_blobs
          THEN /\ catalog_json' = Catalog_add(load, a)
               /\ catalog_exists' = TRUE
               /\ called("save", "Ok")
          ELSE /\ called("save", "LayerMissing")
               /\ UNCHANGED <<catalog_json, catalog_exists>>
    /\ UNCHANGED <<program, beside_directory, layer_dir, layer_blobs,
                   layer_tmps, open_writers>>

\* prune_all, the result of remove_file(catalog.json) and of
\* remove_dir_all(blobs/blake3), each failing on what is absent
prune_all_result ==
    IF ~catalog_exists \/ ~layer_dir THEN "Remove" ELSE "Ok"

\* LocalBackend::prune_all: catalog.json is removed, then blobs/blake3 with
\* all that is in it; the first failure ends the call.
DirPruneAll ==
    /\ local_calls < MaxLocalCalls
    /\ catalog_exists' = FALSE
    /\ catalog_json' = IF catalog_exists THEN EmptyCatalog ELSE catalog_json
    /\ IF catalog_exists /\ layer_dir
       THEN /\ layer_dir' = FALSE
            /\ layer_blobs' = {}
            /\ layer_tmps' = {}
       ELSE UNCHANGED <<layer_dir, layer_blobs, layer_tmps>>
    /\ called("prune_all", prune_all_result)
    /\ UNCHANGED <<program, beside_directory, open_writers>>

DirectoryInit ==
    /\ SchedulerIdle
    /\ NoExecution
    /\ NoBackend
    /\ NoSync
    /\ NoLoading
    /\ NoResolving
    /\ NoPluginHost
    /\ NoMedia
    /\ NoReader
    /\ NoIdent
    /\ NoS3
    /\ catalog_exists = FALSE
    /\ catalog_json = EmptyCatalog
    /\ layer_dir = TRUE
    /\ layer_blobs = {}
    /\ layer_tmps = {}
    /\ open_writers = {}
    /\ last_call = [op |-> "new", res |-> "Ok"]
    /\ local_calls = 0

DirectoryNext ==
    \/ DirNew
    \/ DirStartLayer
    \/ DirFinishLayer
    \/ DirSave
    \/ DirPruneAll

DirectorySpec == DirectoryInit /\ [][DirectoryNext]_vars

\* the directory as new_ leaves it at a path that did not exist
Fresh ==
    /\ ~catalog_exists
    /\ layer_dir
    /\ layer_blobs = {}
    /\ layer_tmps = {}

\* C40: prune_all succeeds in every state of the backend, also where nothing
\* was saved, and leaves it as a new empty backend: list is empty, the
\* directory is as new_ makes it, and a start_layer succeeds.
C40_PruneAllLeavesFreshBackend ==
    /\ last_call.op = "prune_all" =>
          last_call.res = "Ok" /\ list = {} /\ Fresh
    /\ last_call.op = "start_layer" => last_call.res = "Ok"

====
